---- MODULE Spec2Model ----
(***************************************************************************)
(* Model of the invoice extraction-and-reconciliation pipeline of          *)
(* mokouchaoui/ocr-trans (src/full.py, src/custom_ocr.py).                  *)
(*                                                                         *)
(* Texts are sequences of one-character strings, so that the string        *)
(* operations of the code (replace, strip, upper, substring tests, the     *)
(* [\d.]+ scan, float()) are computed and not assumed.  Numbers are        *)
(* integers counted in units of 1/Scale.                                   *)
(***************************************************************************)
EXTENDS Integers, Sequences, FiniteSets, TLC

\* ------------------------------------------------------------------------
\* Bounds of the model
\* ------------------------------------------------------------------------
MaxItems == 2
MaxPages == 2

\* ------------------------------------------------------------------------
\* Texts
\* ------------------------------------------------------------------------
Scale == 12 * 100

Digits == <<"0", "1", "2", "3", "4", "5", "6", "7", "8", "9">>

IsDigit(c) == \E i \in 1..10 : Digits[i] = c

DigitVal(c) == (CHOOSE i \in 1..10 : Digits[i] = c) - 1

IsSpace(c) == c \in {" ", "\n", "\t"}

\* s[from..] , the Python slice s[from-1:]
Drop(s, k) == IF k >= Len(s) THEN << >> ELSE SubSeq(s, k + 1, Len(s))

Take(s, k) == IF k >= Len(s) THEN s ELSE SubSeq(s, 1, k)

StartsWith(s, p) == Len(p) <= Len(s) /\ SubSeq(s, 1, Len(p)) = p

\* Python: p in s
Contains(s, p) == \E i \in 0..(Len(s) - Len(p)) : SubSeq(s, i + 1, i + Len(p)) = p

\* Python: s.replace(old, new), old non-empty, leftmost non-overlapping
RECURSIVE Replace(_, _, _)
Replace(s, old, new) ==
    IF s = << >> THEN << >>
    ELSE IF StartsWith(s, old) THEN new \o Replace(Drop(s, Len(old)), old, new)
    ELSE <<Head(s)>> \o Replace(Tail(s), old, new)

RECURSIVE LStrip(_)
LStrip(s) == IF s # << >> /\ IsSpace(Head(s)) THEN LStrip(Tail(s)) ELSE s

RECURSIVE RStrip(_)
RStrip(s) == IF s # << >> /\ IsSpace(s[Len(s)]) THEN RStrip(Take(s, Len(s) - 1)) ELSE s

\* Python: s.strip()
Strip(s) == RStrip(LStrip(s))

LowerLetters ==
    <<"a", "b", "c", "d", "e", "f", "g", "h", "i", "j", "k", "l", "m",
      "n", "o", "p", "q", "r", "s", "t", "u", "v", "w", "x", "y", "z">>

UpperLetters ==
    <<"A", "B", "C", "D", "E", "F", "G", "H", "I", "J", "K", "L", "M",
      "N", "O", "P", "Q", "R", "S", "T", "U", "V", "W", "X", "Y", "Z">>

IsLetter(c) == \E i \in 1..26 : LowerLetters[i] = c \/ UpperLetters[i] = c

UpperChar(c) ==
    IF \E i \in 1..26 : LowerLetters[i] = c
    THEN UpperLetters[CHOOSE i \in 1..26 : LowerLetters[i] = c]
    ELSE c

\* Python: s.upper()
Upper(s) == [i \in 1..Len(s) |-> UpperChar(s[i])]

IsNumChar(c) == IsDigit(c) \/ c = "."

RECURSIVE RunPrefix(_)
RunPrefix(s) ==
    IF s # << >> /\ IsNumChar(Head(s)) THEN <<Head(s)>> \o RunPrefix(Tail(s)) ELSE << >>

\* Python: re.findall(r'[\d.]+', s)[0] when there is a match, << >> when
\* findall returns the empty list
RECURSIVE FirstRun(_)
FirstRun(s) ==
    IF s = << >> THEN << >>
    ELSE IF IsNumChar(Head(s)) THEN RunPrefix(s)
    ELSE FirstRun(Tail(s))

HasDigit(s) == \E i \in 1..Len(s) : IsDigit(s[i])

DotCount(s) == Cardinality({i \in 1..Len(s) : s[i] = "."})

RECURSIVE DigitsValue(_)
DigitsValue(s) ==
    IF s = << >> THEN 0 ELSE DigitsValue(Take(s, Len(s) - 1)) * 10 + DigitVal(s[Len(s)])

RECURSIVE Pow10(_)
Pow10(k) == IF k = 0 THEN 1 ELSE 10 * Pow10(k - 1)

DotPos(s) == IF DotCount(s) = 0 THEN Len(s) + 1 ELSE CHOOSE i \in 1..Len(s) : s[i] = "."

\* the value, in units of 1/Scale, of an unsigned decimal literal
DecimalValue(s) ==
    LET ip == Take(s, DotPos(s) - 1)
        fp == Drop(s, DotPos(s))
    IN  DigitsValue(ip) * Scale + (DigitsValue(fp) * Scale) \div Pow10(Len(fp))

IsDecimal(s) ==
    /\ HasDigit(s)
    /\ DotCount(s) <= 1
    /\ \A i \in 1..Len(s) : IsNumChar(s[i])

\* Python: float(s) of a str: surrounding whitespace is ignored, one sign is
\* accepted; anything else than a decimal literal raises ValueError
FloatOfText(s) ==
    LET t == Strip(s)
        neg == t # << >> /\ Head(t) = "-"
        u == IF t # << >> /\ Head(t) \in {"-", "+"} THEN Tail(t) ELSE t
    IN  IF IsDecimal(u)
        THEN [ok |-> TRUE, n |-> IF neg THEN 0 - DecimalValue(u) ELSE DecimalValue(u)]
        ELSE [ok |-> FALSE, n |-> 0]

\* ------------------------------------------------------------------------
\* Decoded JSON values, as Python sees them
\*   k = "absent"  the key is not in the dict
\*   k = "null"    None
\*   k = "num"     an int or float, n in units of 1/Scale
\*   k = "huge"    an int beyond the range of a float (float() of it raises
\*                 OverflowError)
\*   k = "str"     a str, s its characters
\*   k = "list"    a non-empty array or object (neither str nor number)
\* ------------------------------------------------------------------------
Absent == [k |-> "absent", n |-> 0, s |-> << >>]
Null == [k |-> "null", n |-> 0, s |-> << >>]
Huge == [k |-> "huge", n |-> 0, s |-> << >>]
List == [k |-> "list", n |-> 0, s |-> << >>]
Num(n) == [k |-> "num", n |-> n, s |-> << >>]
Str(s) == [k |-> "str", n |-> 0, s |-> s]

\* Python: d.get(key) is None
IsNone(v) == v.k \in {"absent", "null"}

\* Python truth value of d.get(key)
Truthy(v) ==
    CASE v.k \in {"absent", "null"} -> FALSE
      [] v.k = "num" -> v.n # 0
      [] v.k = "str" -> v.s # << >>
      [] OTHER -> TRUE

\* Python: v == 0
EqZero(v) == v.k = "num" /\ v.n = 0

IsNumber(v) == v.k \in {"num", "huge"}

\* the result of an expression that may raise: exc = "" when it does not
Ok(v) == [exc |-> "", v |-> v]
Raise(e) == [exc |-> e, v |-> Null]

\* Python: float(v) for v not a str (None is never passed)
FloatOfValue(v) ==
    CASE v.k = "num" -> Ok(Num(v.n))
      [] v.k = "huge" -> Raise("OverflowError")
      [] v.k = "str" ->
            IF FloatOfText(v.s).ok THEN Ok(Num(FloatOfText(v.s).n)) ELSE Raise("ValueError")
      [] OTHER -> Raise("TypeError")

\* Python: float(numbers[0]) if numbers else 0.0, numbers = re.findall(r'[\d.]+', t)
FloatOfFirstRun(t) ==
    LET r == FirstRun(t) IN
    IF r = << >> THEN Ok(Num(0))
    ELSE IF IsDecimal(r) THEN Ok(Num(DecimalValue(r)))
    ELSE Raise("ValueError")

\* ------------------------------------------------------------------------
\* Literals of the code
\* ------------------------------------------------------------------------
T_EUR == <<"E", "U", "R">>
T_EURO == <<"E", "U", "R", "O">>
T_EUROSIGN == <<"€">>
T_USD == <<"U", "S", "D">>
T_DOLLAR == <<"D", "O", "L", "L", "A", "R">>
T_DOLLARSIGN == <<"$">>
T_DH == <<"D", "H">>
T_MAD == <<"M", "A", "D">>
T_DIRHAM == <<"D", "I", "R", "H", "A", "M">>
T_GBP == <<"G", "B", "P">>
T_POUNDSIGN == <<"£">>
T_KGS == <<"K", "G", "S">>
T_KG == <<"K", "G">>
T_MAROC == <<"M", "A", "R", "O", "C">>
T_PCS == <<"P", "C", "S">>
T_CODE_REQUIS == <<"C", "O", "D", "E", " ", "R", "E", "Q", "U", "I", "S">>
T_NA == <<"N", "/", "A">>
T_NULL == <<"N", "U", "L", "L">>
T_NONE == <<"N", "O", "N", "E">>
T_DEFAULT_NGP == <<"9", "4", "0", "3", "9", "0", "0", "0">>
T_ARTICLE == <<"A", "r", "t", "i", "c", "l", "e", " ">>

\* the number words of the written-amount test
WrittenWords ==
    { <<"D", "E", "U", "X">>, <<"T", "R", "O", "I", "S">>,
      <<"Q", "U", "A", "T", "R", "E">>, <<"C", "I", "N", "Q">>,
      <<"C", "E", "N", "T">>, T_EUR, <<"C", "T", "S">> }

\* currency_map.get(c): << >> stands for None
CurrencyMap(c) ==
    CASE c \in {T_EUR, T_EURO, T_EUROSIGN} -> T_EUR
      [] c \in {T_USD, T_DOLLAR, T_DOLLARSIGN} -> T_USD
      [] c \in {T_DH, T_MAD, T_DIRHAM} -> T_MAD
      [] c \in {T_GBP, T_POUNDSIGN} -> T_GBP
      [] OTHER -> << >>

\* the plausible range of an invoice total
MinPlausible == 50
MaxPlausible == 50000

\* ------------------------------------------------------------------------
\* post_process_invoice_data: the header
\* ------------------------------------------------------------------------

\* lines 584-589: a None header text becomes ""
NoneToEmpty(v) == IF IsNone(v) THEN Str(<< >>) ELSE v

\* lines 601-606: the first candidate the currency map knows, << >> if none
RECURSIVE FirstKnownCurrency(_)
FirstKnownCurrency(cands) ==
    IF cands = << >> THEN << >>
    ELSE IF CurrencyMap(Upper(Head(cands))) # << >> THEN CurrencyMap(Upper(Head(cands)))
    ELSE FirstKnownCurrency(Tail(cands))

HasCurrencies(metadata) == metadata.k = "dict" /\ metadata.potential_currencies # << >>

HasTotals(metadata) == metadata.k = "dict" /\ metadata.potential_totals # << >>

\* lines 588-610: the currency of the record
CurrencyStep(devise, metadata) ==
    LET d0 == NoneToEmpty(devise)
        d1 == IF HasCurrencies(metadata) /\ ~Truthy(d0)
                 /\ FirstKnownCurrency(metadata.potential_currencies) # << >>
              THEN Str(FirstKnownCurrency(metadata.potential_currencies))
              ELSE d0
    IN  IF ~Truthy(d1) THEN Str(T_MAD) ELSE d1

\* lines 613-618: a None header number becomes 0.0
NoneToZero(v) == IF IsNone(v) THEN Num(0) ELSE v

\* lines 623-632 (M_fe_Pnet) and 635-644 (M_fe_Pbrute)
CoerceWeight(v) ==
    IF v.k = "str"
    THEN FloatOfFirstRun(Strip(Replace(Replace(Replace(v.s, <<",">>, <<".">>),
                                               T_KGS, << >>), T_KG, << >>)))
    ELSE FloatOfValue(v)

\* lines 657-666 and 689-698: the highest candidate in the plausible range
RECURSIVE BestTotalFrom(_, _)
BestTotalFrom(totals, best) ==
    IF totals = << >> THEN best
    ELSE LET f == FloatOfText(Replace(Head(totals), <<",">>, <<".">>))
             b == IF f.ok /\ MinPlausible * Scale <= f.n /\ f.n <= MaxPlausible * Scale
                     /\ f.n > best
                  THEN f.n ELSE best
         IN  BestTotalFrom(Tail(totals), b)

\* a selection that stops at the first candidate in the plausible range
RECURSIVE BestTotalFirstPlausible(_)
BestTotalFirstPlausible(totals) ==
    IF totals = << >> THEN 0
    ELSE LET f == FloatOfText(Replace(Head(totals), <<",">>, <<".">>))
         IN  IF f.ok /\ MinPlausible * Scale <= f.n /\ f.n <= MaxPlausible * Scale
             THEN f.n
             ELSE BestTotalFirstPlausible(Tail(totals))

BestTotal(totals) == BestTotalFrom(totals, 0)

\* line 651
IsWrittenAmount(val_str) == \E w \in WrittenWords : Contains(Upper(val_str), w)

\* lines 647-706: M_fe_valDev
CoerceTotal(v, metadata) ==
    IF v.k = "str"
    THEN LET val_str == Replace(Replace(v.s, <<",">>, <<".">>), <<" ">>, << >>) IN
         IF IsWrittenAmount(val_str)
         THEN IF HasTotals(metadata)
              THEN Ok(Num(BestTotal(metadata.potential_totals)))
              ELSE Ok(Num(0))
         ELSE FloatOfFirstRun(val_str)
    ELSE IF IsNone(v) \/ EqZero(v)
         THEN IF HasTotals(metadata)
              THEN Ok(Num(BestTotal(metadata.potential_totals)))
              ELSE FloatOfValue(v)
         ELSE Ok(v)

\* the exceptions the header's and the items' try blocks catch (lines 707, 868)
Caught(e) == e \in {"ValueError", "TypeError"}

\* lines 612-710: the three header numbers.  exc is the exception that
\* escapes, failed says whether one was caught and the group reset
HeaderNumbers(data, metadata) ==
    LET pnet == CoerceWeight(NoneToZero(data.M_fe_Pnet))
        pbrute == CoerceWeight(NoneToZero(data.M_fe_Pbrute))
        val == CoerceTotal(NoneToZero(data.M_fe_valDev), metadata)
        e == IF pnet.exc # "" THEN pnet.exc
             ELSE IF pbrute.exc # "" THEN pbrute.exc
             ELSE val.exc
    IN  IF e = ""
        THEN [exc |-> "", failed |-> FALSE,
              M_fe_Pnet |-> pnet.v, M_fe_Pbrute |-> pbrute.v, M_fe_valDev |-> val.v]
        ELSE IF Caught(e)
        THEN [exc |-> "", failed |-> TRUE,
              M_fe_Pnet |-> Num(0), M_fe_Pbrute |-> Num(0), M_fe_valDev |-> Num(0)]
        ELSE [exc |-> e, failed |-> FALSE,
              M_fe_Pnet |-> data.M_fe_Pnet, M_fe_Pbrute |-> data.M_fe_Pbrute,
              M_fe_valDev |-> data.M_fe_valDev]

\* ------------------------------------------------------------------------
\* post_process_invoice_data: the items
\* ------------------------------------------------------------------------
ItemFields ==
    {"AvecSansPaiment", "M_fl_Ngp", "M_fl_art", "M_fl_desig", "M_fl_orig",
     "quantity", "M_fl_unite", "M_fl_PNet", "M_fl_PBrut", "M_fl_valDev"}

\* lines 719-728: item.setdefault(key, default)
SetDefault(key) ==
    CASE key = "M_fl_orig" -> Str(T_MAROC)
      [] key = "quantity" -> Num(1 * Scale)
      [] key = "M_fl_unite" -> Str(T_PCS)
      [] key \in {"M_fl_PNet", "M_fl_PBrut", "M_fl_valDev"} -> Num(0)
      [] OTHER -> Str(<< >>)

\* lines 731-740: the replacement of a None value
NoneDefault(key) ==
    CASE key \in {"M_fl_PBrut", "M_fl_valDev", "M_fl_PNet"} -> Num(0)
      [] key = "M_fl_orig" -> Str(T_MAROC)
      [] OTHER -> Str(<< >>)

\* lines 717-740, one item (a dict)
ItemDefaults(item) ==
    [key \in DOMAIN item |->
        IF key \notin ItemFields THEN item[key]
        ELSE IF item[key].k = "absent" THEN SetDefault(key)
        ELSE IF item[key].k = "null" THEN NoneDefault(key)
        ELSE item[key]]

\* a test that sends every described item to the service, coded or not
NeedsNgpWhateverTheCode(item) ==
    IF item.M_fl_Ngp.k # "str" THEN [exc |-> "AttributeError", needs |-> FALSE]
    ELSE IF ~Truthy(item.M_fl_desig) THEN [exc |-> "", needs |-> FALSE]
    ELSE IF item.M_fl_desig.k # "str" THEN [exc |-> "AttributeError", needs |-> FALSE]
    ELSE [exc |-> "", needs |-> Strip(item.M_fl_desig.s) # << >>]

\* lines 749-751: does the item go into the classification request?
\* exc: the AttributeError of .strip() on a value that is not a str
NeedsNgp(item) ==
    IF item.M_fl_Ngp.k # "str" THEN [exc |-> "AttributeError", needs |-> FALSE]
    ELSE IF Strip(item.M_fl_Ngp.s) = << >> \/ Strip(item.M_fl_Ngp.s) = T_CODE_REQUIS
    THEN IF ~Truthy(item.M_fl_desig) THEN [exc |-> "", needs |-> FALSE]
         ELSE IF item.M_fl_desig.k # "str" THEN [exc |-> "AttributeError", needs |-> FALSE]
         ELSE [exc |-> "", needs |-> Strip(item.M_fl_desig.s) # << >>]
    ELSE [exc |-> "", needs |-> FALSE]

\* lines 744-754: items_needing_ngp, as 1-based positions in items
RECURSIVE NeedingFrom(_, _)
NeedingFrom(items, i) ==
    IF i > Len(items) THEN << >>
    ELSE IF NeedsNgp(items[i]).needs THEN <<i>> \o NeedingFrom(items, i + 1)
    ELSE NeedingFrom(items, i + 1)

ItemsNeedingNgp(items) == NeedingFrom(items, 1)

\* the first exception of the loop of lines 747-754, "" if none
NeedingExc(items) ==
    IF \E i \in 1..Len(items) : NeedsNgp(items[i]).exc # ""
    THEN "AttributeError" ELSE ""

\* ------------------------------------------------------------------------
\* find_ngp_codes_with_ai
\*
\* The outcome of the reasoning service is a record
\*   kind    "timeout" | "connection" | "status" (a status other than 200) |
\*           "undecodable" (the reply is not JSON) | "notdict" (the decoded
\*           reply is not an object) | "json" (an object)
\*   entries the value of its "classifications" key, each entry with isDict
\*           and its ngp_code
\* ------------------------------------------------------------------------
Classification(code, confidence, source) ==
    [ngp_code |-> code, confidence |-> confidence, source |-> source]

\* a resolver that answers a failure of the service with no classification
FallbackNone(n, source) == << >>

\* lines 1551-1559, 1565-1573, 1581-1588: one default per description
Fallback(n, source) ==
    [i \in 1..n |-> Classification(Str(T_DEFAULT_NGP), "low", source)]

\* line 1535: the test that sends a returned code to the default.
\* exc: len() of a number raises TypeError
InvalidNgp(code) ==
    IF ~Truthy(code) THEN [exc |-> "", invalid |-> TRUE]
    ELSE IF code.k # "str" THEN [exc |-> "TypeError", invalid |-> FALSE]
    ELSE [exc |-> "",
          invalid |-> Len(code.s) < 6 \/ Upper(code.s) \in {T_NA, T_NULL, T_NONE}]

\* lines 1531-1542, one classification
Validate(entry) ==
    IF InvalidNgp(entry.ngp_code).invalid
    THEN Classification(Str(T_DEFAULT_NGP), "low", "default_fallback")
    ELSE Classification(entry.ngp_code, "high", "ai")

\* lines 1436-1589: what find_ngp_codes_with_ai returns for n descriptions
FindNgpCodesWithAi(n, reply) ==
    CASE reply.kind \in {"timeout", "connection"} -> Fallback(n, "error_fallback")
      [] reply.kind = "status" -> Fallback(n, "api_fallback")
      [] reply.kind = "undecodable" -> Fallback(n, "fallback_default")
      [] reply.kind = "notdict" -> Fallback(n, "error_fallback")
      [] OTHER ->
            IF \E i \in 1..Len(reply.entries) :
                  \/ ~reply.entries[i].isDict
                  \/ InvalidNgp(reply.entries[i].ngp_code).exc # ""
            THEN Fallback(n, "error_fallback")
            ELSE [i \in 1..Len(reply.entries) |-> Validate(reply.entries[i])]

\* lines 761-776: the codes after the assignment loop
AssignNgp(items, needing, classifications) ==
    [i \in 1..Len(items) |->
        IF \E j \in 1..Len(needing) : needing[j] = i /\ j <= Len(classifications)
        THEN LET j == CHOOSE j \in 1..Len(needing) : needing[j] = i
                 ngp_code == classifications[j].ngp_code
             IN  IF Truthy(ngp_code) /\ Len(ngp_code.s) >= 6
                 THEN [items[i] EXCEPT !.M_fl_Ngp = ngp_code]
                 ELSE [items[i] EXCEPT !.M_fl_Ngp = Str(<< >>)]
        ELSE items[i]]

\* lines 784-789: the final pass over one item
FinalNgp(item) ==
    LET current_ngp == Strip(item.M_fl_Ngp.s) IN
    IF current_ngp = << >> \/ Upper(current_ngp) \in {T_NA, T_NULL, T_NONE, << >>}
    THEN [item EXCEPT !.M_fl_Ngp = Str(T_DEFAULT_NGP)]
    ELSE item

\* ------------------------------------------------------------------------
\* post_process_invoice_data: validation of the items (lines 806-872)
\* ------------------------------------------------------------------------

\* line 797: re.sub(r'[^\w\-/]', '', number)
IsNumberChar(c) == IsLetter(c) \/ IsDigit(c) \/ c \in {"_", "-", "/"}

CleanNumber(s) == SelectSeq(s, IsNumberChar)

\* lines 795-797
CleanInvoiceNumber(v) == IF Truthy(v) /\ v.k = "str" THEN Str(CleanNumber(v.s)) ELSE v

\* line 811: f"Article {item_idx + 1}"
ArticleName(i) == T_ARTICLE \o <<Digits[i + 1]>>

\* lines 817-831: the value of the item; the str branch catches everything
CoerceItemValue(v) ==
    IF v.k = "str"
    THEN LET val_str == Replace(Replace(Replace(Replace(v.s, <<",">>, <<".">>),
                                        <<" ">>, << >>), T_EUROSIGN, << >>), T_EUR, << >>)
             f == FloatOfFirstRun(val_str)
         IN  IF f.exc = "" THEN f ELSE Ok(Num(0))
    ELSE IF Truthy(v) THEN FloatOfValue(v) ELSE Ok(Num(0))

\* Python: header > 0 (line 834)
Positive(v) ==
    CASE v.k = "num" -> [exc |-> "", pos |-> v.n > 0]
      [] v.k = "huge" -> [exc |-> "", pos |-> TRUE]
      [] OTHER -> [exc |-> "TypeError", pos |-> FALSE]

\* Python: header / total_items (line 845)
Divide(v, n) == IF v.k = "huge" THEN Raise("OverflowError") ELSE Ok(Num(v.n \div n))

\* lines 833-846: the value of item i after distribution; items holds the
\* items as they are when item i is reached, val its coerced value
Distribute(items, i, val, total) ==
    IF ~EqZero(val) THEN Ok(val)
    ELSE IF Positive(total).exc # "" THEN Raise(Positive(total).exc)
    ELSE IF ~Positive(total).pos THEN Ok(val)
    ELSE IF Len(items) = 1 THEN Ok(total)
    ELSE IF \A j \in 1..Len(items) : j = i \/ EqZero(items[j].M_fl_valDev)
    THEN Divide(total, Len(items))
    ELSE Ok(val)

Truncate(n) == IF n >= 0 THEN (n \div Scale) * Scale ELSE 0 - (((0 - n) \div Scale) * Scale)

IsInteger(s) ==
    LET t == Strip(s)
        u == IF t # << >> /\ Head(t) \in {"-", "+"} THEN Tail(t) ELSE t
    IN  u # << >> /\ \A j \in 1..Len(u) : IsDigit(u[j])

\* Python: int(v)
IntOfValue(v) ==
    CASE v.k = "num" -> Ok(Num(Truncate(v.n)))
      [] v.k = "huge" -> Ok(Huge)
      [] v.k = "str" ->
            IF IsInteger(v.s) THEN Ok(Num(FloatOfText(v.s).n)) ELSE Raise("ValueError")
      [] OTHER -> Raise("TypeError")

\* line 852
CoerceQuantity(v) == IF Truthy(v) THEN IntOfValue(v) ELSE Ok(Num(1 * Scale))

\* lines 855-866: the str branch catches everything
CoerceItemNet(v) ==
    IF v.k = "str"
    THEN LET pnet_str == Replace(v.s, <<",">>, <<".">>)
             f == FloatOfFirstRun(pnet_str)
         IN  IF HasDigit(pnet_str) /\ f.exc = "" THEN f ELSE Ok(Num(0))
    ELSE IF Truthy(v) THEN FloatOfValue(v) ELSE Ok(Num(0))

\* lines 806-872 for item i (1-based).  exc is the exception that escapes,
\* failed says whether one was caught and the item's group reset
ValidateItem(items, i, total) ==
    LET it0 == items[i]
        it1 == IF ~Truthy(it0.M_fl_desig)
               THEN [it0 EXCEPT !.M_fl_desig = Str(ArticleName(i))] ELSE it0
        val == CoerceItemValue(it1.M_fl_valDev)
        dist == IF val.exc # "" THEN val ELSE Distribute(items, i, val.v, total)
        brut == FloatOfValue(it1.M_fl_PBrut)
        qty == CoerceQuantity(it1.quantity)
        net == CoerceItemNet(it1.M_fl_PNet)
        e == IF dist.exc # "" THEN dist.exc
             ELSE IF brut.exc # "" THEN brut.exc
             ELSE IF qty.exc # "" THEN qty.exc
             ELSE net.exc
    IN  IF e = ""
        THEN [exc |-> "", failed |-> FALSE,
              item |-> [it1 EXCEPT !.M_fl_valDev = dist.v, !.M_fl_PBrut = brut.v,
                                   !.quantity = qty.v, !.M_fl_PNet = net.v]]
        ELSE IF Caught(e)
        THEN [exc |-> "", failed |-> TRUE,
              item |-> [it1 EXCEPT !.M_fl_valDev = Num(0), !.M_fl_PBrut = Num(0),
                                   !.quantity = Num(1 * Scale), !.M_fl_PNet = Num(0)]]
        ELSE [exc |-> e, failed |-> FALSE, item |-> it1]

\* the loop of lines 806-872 from item i on: it stops at the first exception
\* that escapes
RECURSIVE ValidateFrom(_, _, _, _)
ValidateFrom(items, i, total, failed) ==
    IF i > Len(items) THEN [exc |-> "", items |-> items, failed |-> failed]
    ELSE LET r == ValidateItem(items, i, total) IN
         IF r.exc # ""
         THEN [exc |-> r.exc, items |-> [items EXCEPT ![i] = r.item], failed |-> failed]
         ELSE ValidateFrom([items EXCEPT ![i] = r.item], i + 1, total,
                           IF r.failed THEN failed \cup {i} ELSE failed)

ValidateItems(items, total) == ValidateFrom(items, 1, total, {})

\* ------------------------------------------------------------------------
\* post_process_invoice_data as a whole (lines 577-877)
\*
\* A draft is a record: isDict (the decoded reply is an object), the header
\* values, and items = [k, v]: k = "list" with the entries v, "absent", or
\* "other" (a value that is not a list).  An entry has isDict and the item
\* fields.
\* ------------------------------------------------------------------------
\* the single element of a set: Only({f(x) : x \in {e}}) is f(e), with e
\* evaluated once
Only(S) == CHOOSE x \in S : TRUE

NoReply == [kind |-> "none", entries |-> << >>]

NoRequest == [called |-> FALSE, needing |-> << >>, classifications |-> << >>]

Outcome(e, data, request, headerFailed, itemsFailed) ==
    [exc |-> e, data |-> data, request |-> request,
     headerFailed |-> headerFailed, itemsFailed |-> itemsFailed]

\* lines 712-714
ItemList(items) == IF items.k = "list" THEN items.v ELSE << >>

PostProcessInvoiceData(data, metadata, reply) ==
    IF ~data.isDict THEN Outcome("AttributeError", data, NoRequest, FALSE, {})
    ELSE Only({
        IF hn.exc # "" THEN Outcome(hn.exc, data, NoRequest, FALSE, {})
        ELSE IF \E i \in 1..Len(items0) : ~items0[i].isDict
        THEN Outcome("AttributeError", data, NoRequest, hn.failed, {})
        ELSE Only({
            IF NeedingExc(items1) # ""
            THEN Outcome("AttributeError", data, NoRequest, hn.failed, {})
            ELSE Only({
                Only({
                    Outcome(vi.exc,
                            [isDict |-> TRUE,
                             M_fe_num |-> CleanInvoiceNumber(NoneToEmpty(data.M_fe_num)),
                             M_fe_date |-> NoneToEmpty(data.M_fe_date),
                             M_fe_devise |-> CurrencyStep(data.M_fe_devise, metadata),
                             M_fe_Pnet |-> hn.M_fe_Pnet,
                             M_fe_Pbrute |-> hn.M_fe_Pbrute,
                             M_fe_valDev |-> hn.M_fe_valDev,
                             items |-> [k |-> "list", v |-> vi.items]],
                            [called |-> needing # << >>, needing |-> needing,
                             classifications |-> classifications],
                            hn.failed, vi.failed) :
                    vi \in {ValidateItems(
                               [i \in 1..Len(items1) |->
                                   FinalNgp(AssignNgp(items1, needing, classifications)[i])],
                               hn.M_fe_valDev)} }) :
                needing \in {ItemsNeedingNgp(items1)},
                classifications \in {IF ItemsNeedingNgp(items1) # << >>
                                     THEN FindNgpCodesWithAi(Len(ItemsNeedingNgp(items1)), reply)
                                     ELSE << >>} }) :
            items1 \in {[i \in 1..Len(items0) |-> ItemDefaults(items0[i])]} }) :
        hn \in {HeaderNumbers(data, metadata)},
        items0 \in {ItemList(data.items)} })

\* ------------------------------------------------------------------------
\* Inputs: the texts the drafts, candidates and replies are built from
\* ------------------------------------------------------------------------
X_12_5_KGS == <<"1", "2", ",", "5", " ", "K", "G", "S">>
X_8_KG == <<"8", " ", "K", "G">>
X_SEPARATORS == <<"1", ".", "2", "3", "4", ",", "5">>
X_NO_DIGITS == <<"N", "/", "A">>
X_262_50 == <<"2", "6", "2", ".", "5", "0">>
X_262_50_EUR == <<"2", "6", "2", ".", "5", "0", " ", "E", "U", "R">>
X_WRITTEN == <<"D", "E", "U", "X", " ", "C", "E", "N", "T">>
X_300 == <<"3", "0", "0">>
X_0 == <<"0">>
X_12_50_EUR == <<"1", "2", ",", "5", "0", " ", "E", "U", "R">>
X_2_5 == <<"2", ".", "5">>
X_ABC == <<"a", "b", "c">>
X_120_00 == <<"1", "2", "0", ".", "0", "0">>
X_30_00 == <<"3", "0", ".", "0", "0">>
X_262_50_COMMA == <<"2", "6", "2", ",", "5", "0">>
X_99999_00 == <<"9", "9", "9", "9", "9", ".", "0", "0">>
X_EUR_LOWER == <<"e", "u", "r">>
X_CHF == <<"C", "H", "F">>
X_CHAISE == <<"C", "H", "A", "I", "S", "E">>
X_BLANK == <<" ", " ">>
X_NGP_VALID == <<"9", "4", "0", "3", "6", "0", "0", "0">>
X_NGP_SHORT == <<"9", "4", "0", "3">>
X_NGP_SIX == <<"9", "4", "0", "3", "6", "0">>
X_NA_LOWER == <<"n", "/", "a">>
X_INVOICE_NUMBER == <<"F", " ", "8", "3", "2", "/", "A">>
X_DATE == <<"2", "0", "2", "5", "-", "0", "4", "-", "1", "1">>
X_FRANCE == <<"F", "R", "A", "N", "C", "E">>
X_KG_UNIT == <<"K", "G">>

\* ------------------------------------------------------------------------
\* Inputs: drafts, metadata candidates and outcomes of the reasoning service
\* ------------------------------------------------------------------------
SeqsUpTo(S, k) == UNION {[1..m -> S] : m \in 0..k}

Amount(n) == Num(n * Scale)

Item(ngp, desig, orig, quantity, unite, net, brut, val) ==
    [isDict |-> TRUE, AvecSansPaiment |-> Str(<< >>), M_fl_Ngp |-> ngp,
     M_fl_art |-> Str(<< >>), M_fl_desig |-> desig, M_fl_orig |-> orig,
     quantity |-> quantity, M_fl_unite |-> unite, M_fl_PNet |-> net,
     M_fl_PBrut |-> brut, M_fl_valDev |-> val]

\* an item with a code, a description and numbers that need no repair
PlainItem(val) ==
    Item(Str(X_NGP_VALID), Str(X_CHAISE), Str(X_FRANCE), Amount(5), Str(X_KG_UNIT),
         Amount(1), Amount(2), val)

\* an entry of items that is not an object
NotAnItem == [PlainItem(Amount(100)) EXCEPT !.isDict = FALSE]

NgpItems ==
    { Item(ngp, desig, Str(X_FRANCE), Amount(5), Str(X_KG_UNIT), Amount(1), Amount(2),
           Amount(100)) :
        ngp \in {Absent, Null, Str(T_CODE_REQUIS), Str(T_NA)},
        desig \in {Str(<< >>), Str(X_CHAISE)} }
    \cup
    { Item(ngp, Str(X_CHAISE), Str(X_FRANCE), Amount(5), Str(X_KG_UNIT), Amount(1),
           Amount(2), Amount(100)) :
        ngp \in {Str(X_BLANK), Str(X_NA_LOWER), Str(X_NGP_SHORT), Amount(9403)} }

ValueItems ==
    { PlainItem(val) :
        val \in {Amount(0), Amount(120), Str(X_0), Str(X_12_50_EUR), List, Huge} }

FailingItems ==
    { Item(Str(X_NGP_VALID), Str(X_CHAISE), Str(X_FRANCE), q, Str(X_KG_UNIT), net, brut, val) :
        val \in {Amount(0), Amount(120)},
        q \in {Amount(5)}, net \in {Amount(1)}, brut \in {Str(X_ABC), Huge} }
    \cup
    { Item(Str(X_NGP_VALID), Str(X_CHAISE), Str(X_FRANCE), Str(X_2_5), Str(X_KG_UNIT),
           Amount(1), Amount(2), Amount(120)),
      Item(Str(X_NGP_VALID), Str(X_CHAISE), Str(X_FRANCE), Amount(5), Str(X_KG_UNIT),
           List, Amount(2), Amount(120)) }

DefaultedItems ==
    { Item(Absent, Absent, Absent, Absent, Absent, Absent, Absent, Absent),
      Item(Null, Null, Null, Null, Null, Null, Null, Null) }

ItemSet == NgpItems \cup ValueItems \cup FailingItems \cup DefaultedItems

Header(num, date, devise, pnet, pbrute, val, items) ==
    [isDict |-> TRUE, M_fe_num |-> num, M_fe_date |-> date, M_fe_devise |-> devise,
     M_fe_Pnet |-> pnet, M_fe_Pbrute |-> pbrute, M_fe_valDev |-> val, items |-> items]

Items(v) == [k |-> "list", v |-> v]

NoMetadata == [k |-> "none", potential_currencies |-> << >>, potential_totals |-> << >>]

Metadata(currencies, totals) ==
    [k |-> "dict", potential_currencies |-> currencies, potential_totals |-> totals]

Input(draft, metadata) == [draft |-> draft, metadata |-> metadata]

DeviseValues ==
    {Absent, Null, Str(<< >>), Str(T_EUROSIGN), Str(T_EURO), Str(T_EUR), Str(T_MAD)}

CurrencyLists ==
    { << >>, <<T_EUROSIGN>>, <<T_EURO>>, <<T_EUR>>, <<X_EUR_LOWER>>, <<X_CHF, T_DH>> }

WeightValues ==
    { Absent, Null, Amount(0), Amount(8), Amount(0 - 5), Str(X_12_5_KGS),
      Str(X_SEPARATORS), Str(X_NO_DIGITS), List, Huge }

TotalValues ==
    { Absent, Null, Amount(0), Amount(300), Amount(0 - 300), Str(X_262_50),
      Str(X_262_50_EUR), Str(X_SEPARATORS), Str(X_WRITTEN), Str(X_NO_DIGITS), List, Huge }

TotalLists ==
    { << >>, <<X_120_00>>, <<X_30_00, X_262_50_COMMA, X_120_00>>,
      <<X_SEPARATORS, X_99999_00>>, <<X_SEPARATORS, X_120_00, X_262_50_COMMA>> }

\* the drafts that vary the currency
CurrencyInputs ==
    { Input(Header(Str(X_INVOICE_NUMBER), Str(X_DATE), devise, Amount(8), Amount(8),
                   Amount(300), Items(<<PlainItem(Amount(100))>>)), m) :
        devise \in DeviseValues,
        m \in {NoMetadata} \cup {Metadata(c, << >>) : c \in CurrencyLists} }

\* the drafts that vary the header numbers
NumberInputs ==
    { Input(Header(num, Str(X_DATE), Str(T_EUR), pnet, pbrute, val,
                   Items(<<PlainItem(Amount(100))>>)), m) :
        num \in {Null, Str(X_INVOICE_NUMBER)},
        pnet \in WeightValues,
        pbrute \in {Null, Amount(8), Str(X_8_KG), List},
        val \in TotalValues,
        m \in {NoMetadata} \cup {Metadata(<<T_EUR>>, t) : t \in TotalLists} }

\* the drafts that vary the items
ItemInputs ==
    { Input(Header(Str(X_INVOICE_NUMBER), Str(X_DATE), Str(T_EUR), Amount(8), Amount(8),
                   val, Items(items)), NoMetadata) :
        val \in {Amount(0), Amount(300), List},
        items \in SeqsUpTo(ItemSet, MaxItems) }

\* the drafts of another shape: not an object, items not a list or absent, an
\* entry of items that is not an object
ShapeInputs ==
    LET h == Header(Str(X_INVOICE_NUMBER), Str(X_DATE), Str(T_EUR), Amount(8), Amount(8),
                    Amount(300), Items(<<PlainItem(Amount(100))>>))
    IN  { Input([h EXCEPT !.isDict = FALSE], NoMetadata),
          Input([h EXCEPT !.items = [k |-> "absent", v |-> << >>]], NoMetadata),
          Input([h EXCEPT !.items = [k |-> "other", v |-> << >>]], NoMetadata),
          Input([h EXCEPT !.items = Items(<<PlainItem(Amount(100)), NotAnItem>>)],
                NoMetadata) }

Inputs == CurrencyInputs \cup NumberInputs \cup ItemInputs \cup ShapeInputs

ReplyEntry(code) == [isDict |-> TRUE, ngp_code |-> code]

ReplyCodes == {Str(X_NGP_VALID), Str(X_NGP_SHORT), Str(T_CODE_REQUIS)}

\* the outcomes of the service for a request of n descriptions: the failures,
\* the lists of 0..n+1 classifications, and the single classifications whose
\* code is null, a six-character code, a number, or whose entry is no object
Replies(n) ==
    { [kind |-> k, entries |-> << >>] :
        k \in {"timeout", "connection", "status", "undecodable", "notdict"} }
    \cup
    { [kind |-> "json", entries |-> e] :
        e \in SeqsUpTo({ReplyEntry(c) : c \in ReplyCodes}, n + 1) }
    \cup
    { [kind |-> "json", entries |-> <<e>>] :
        e \in { ReplyEntry(Null), ReplyEntry(Str(X_NGP_SIX)), ReplyEntry(Amount(9403)),
                [ReplyEntry(Str(X_NGP_VALID)) EXCEPT !.isDict = FALSE] } }

\* the number of descriptions post_process_invoice_data sends for a draft
\* (0 when it sends no request)
RequestSize(data, metadata) ==
    Len(PostProcessInvoiceData(data, metadata, NoReply).request.needing)

\* ------------------------------------------------------------------------
\* Text recognition (src/custom_ocr.py)
\*
\* The outcome of a backend run is the environment's: what the C library or
\* the tesseract process did with the file.  A result is the pair
\* (text, confidence) the methods return.
\* ------------------------------------------------------------------------
MaxCalls == 2

X_PAGE == <<"F", "A", "C", "T", "U", "R", "E", " ", "8", "3", "2">>

Pair(text, confidence) == [k |-> "tuple", text |-> text, confidence |-> confidence]

EmptyPair == Pair(<< >>, 0)

\* what a run of the C library can do: a text with its confidence, a null
\* pointer (b"" is falsy as well), or an exception in the call
PrimaryOutcomes ==
    {[kind |-> "text", text |-> X_PAGE, confidence |-> 92],
     [kind |-> "text", text |-> X_BLANK, confidence |-> 12],
     [kind |-> "null", text |-> << >>, confidence |-> 0],
     [kind |-> "raises", text |-> << >>, confidence |-> 0]}

\* what a run of the tesseract executable can do: exit 0 with an output
\* file, exit non-zero, exceed the timeout, or fail otherwise (no temporary
\* file, unreadable output)
SecondaryOutcomes ==
    {[kind |-> "text", text |-> X_PAGE],
     [kind |-> "text", text |-> << >>],
     [kind |-> "nonzero", text |-> << >>],
     [kind |-> "timeout", text |-> << >>],
     [kind |-> "raises", text |-> << >>]}

NotRun == [kind |-> "not run", text |-> << >>, confidence |-> 0]

\* COCRWrapper.extract_text_from_file and extract_text_from_memory: every
\* exception is caught inside, a null pointer gives the empty pair; the
\* memory variant assumes confidence 95
COCRExtract(outcome, fromFile) ==
    IF outcome.kind = "text"
    THEN Pair(outcome.text, IF fromFile THEN outcome.confidence ELSE 95)
    ELSE EmptyPair

\* OCRFallback._check_tesseract: `tesseract --version`
CheckOutcomes == {"zero", "nonzero", "timeout", "not found", "os error"}

CheckTesseract(outcome) ==
    IF outcome = "zero" THEN Ok(TRUE)
    ELSE IF outcome \in {"nonzero", "timeout", "not found"} THEN Ok(FALSE)
    ELSE Raise("OSError")

\* OCRFallback.extract_text_from_file
FallbackExtract(available, outcome) ==
    IF ~available THEN EmptyPair
    ELSE IF outcome.kind = "text" THEN Pair(outcome.text, 85)
    ELSE EmptyPair

\* a call of CustomOCR.extract_text: which arguments are given, and what the
\* environment does with each step the call may take
Call(file_path, image_data, primary, secondary, write) ==
    [file_path |-> file_path, image_data |-> image_data,
     primary |-> primary, secondary |-> secondary, write |-> write]

Done(e, result, tiers) == [exc |-> e, result |-> result, tiers |-> tiers]

\* the part of CustomOCR.extract_text after the C library: the tesseract
\* tier, reached with the tiers tried so far
ExtractFallback(available, call, tiers) ==
    IF call.file_path /\ available
    THEN Done("", FallbackExtract(available, call.secondary), Append(tiers, "secondary"))
    ELSE IF call.image_data
    THEN IF call.write = "fails" THEN Done("OSError", EmptyPair, tiers)
         ELSE Done("", FallbackExtract(available, call.secondary),
                   IF available THEN Append(tiers, "secondary") ELSE tiers)
    ELSE Done("", EmptyPair, tiers)

\* CustomOCR.extract_text(file_path, image_data)
ExtractText(loaded, available, call) ==
    IF loaded /\ call.file_path
    THEN Done("", COCRExtract(call.primary, TRUE), <<"primary">>)
    ELSE IF loaded /\ call.image_data
    THEN Done("", COCRExtract(call.primary, FALSE), <<"primary">>)
    ELSE ExtractFallback(available, call, << >>)

\* the steps a call takes, after the arguments and the tiers available
PrimaryRuns(loaded, f, d) == loaded /\ (f \/ d)

WriteRuns(loaded, available, f, d) == ~PrimaryRuns(loaded, f, d) /\ ~(f /\ available) /\ d

SecondaryRuns(loaded, available, f, d, w) ==
    ~PrimaryRuns(loaded, f, d) /\ available /\ (f \/ (d /\ w = "ok"))

\* the calls a constructed object can receive, each with an outcome for
\* exactly the steps it takes
CallsOf(loaded, available) ==
    UNION { UNION { {Call(f, d, p, s, w) :
                       p \in IF PrimaryRuns(loaded, f, d) THEN PrimaryOutcomes ELSE {NotRun},
                       s \in IF SecondaryRuns(loaded, available, f, d, w)
                             THEN SecondaryOutcomes ELSE {NotRun}} :
                    w \in IF WriteRuns(loaded, available, f, d)
                          THEN {"ok", "fails"} ELSE {"not run"}} :
            f \in BOOLEAN, d \in BOOLEAN}

\* ------------------------------------------------------------------------
\* Texts of the upload pipeline (src/full.py): exception messages, the
\* substrings upload_invoice looks for in them, replies of the reasoning
\* service
\* ------------------------------------------------------------------------
E_TUPLE_STRIP ==
    <<"'", "t", "u", "p", "l", "e", "'", " ", "o", "b", "j", "e", "c", "t",
      " ", "h", "a", "s", " ", "n", "o", " ", "a", "t", "t", "r", "i", "b",
      "u", "t", "e", " ", "'", "s", "t", "r", "i", "p", "'">>

E_LIST_GET ==
    <<"'", "l", "i", "s", "t", "'", " ", "o", "b", "j", "e", "c", "t", " ",
      "h", "a", "s", " ", "n", "o", " ", "a", "t", "t", "r", "i", "b", "u",
      "t", "e", " ", "'", "g", "e", "t", "'">>

E_NO_SPACE ==
    <<"[", "E", "r", "r", "n", "o", " ", "2", "8", "]", " ", "N", "o", " ",
      "s", "p", "a", "c", "e", " ", "l", "e", "f", "t", " ", "o", "n", " ",
      "d", "e", "v", "i", "c", "e">>

E_POPPLER ==
    <<"U", "n", "a", "b", "l", "e", " ", "t", "o", " ", "g", "e", "t", " ",
      "p", "a", "g", "e", " ", "c", "o", "u", "n", "t", ".", " ", "I", "s",
      " ", "p", "o", "p", "p", "l", "e", "r", " ", "i", "n", "s", "t", "a",
      "l", "l", "e", "d", " ", "a", "n", "d", " ", "i", "n", " ", "P", "A",
      "T", "H", "?">>

E_PAGE_COUNT ==
    <<"U", "n", "a", "b", "l", "e", " ", "t", "o", " ", "g", "e", "t", " ",
      "p", "a", "g", "e", " ", "c", "o", "u", "n", "t", ".">>

P_FAILED_CONVERT ==
    <<"F", "a", "i", "l", "e", "d", " ", "t", "o", " ", "c", "o", "n", "v",
      "e", "r", "t", " ", "P", "D", "F", " ", "t", "o", " ", "i", "m", "a",
      "g", "e", "s", ":", " ">>

P_CUSTOM_OCR ==
    <<"C", "u", "s", "t", "o", "m", " ", "O", "C", "R", " ", "f", "a", "i",
      "l", "e", "d", ":", " ">>

T_NO_TEXT_PDF ==
    <<"N", "o", " ", "t", "e", "x", "t", " ", "f", "o", "u", "n", "d", " ",
      "i", "n", " ", "P", "D", "F", ".">>

T_NO_TEXT ==
    <<"N", "o", " ", "t", "e", "x", "t", " ", "f", "o", "u", "n", "d", ".">>

N_PDF2IMAGE ==
    <<"p", "d", "f", "2", "i", "m", "a", "g", "e">>

N_POPPLER ==
    <<"p", "o", "p", "p", "l", "e", "r">>

N_CREDENTIALS ==
    <<"c", "r", "e", "d", "e", "n", "t", "i", "a", "l", "s">>

N_AUTHENTICATION ==
    <<"a", "u", "t", "h", "e", "n", "t", "i", "c", "a", "t", "i", "o", "n">>

N_QUOTA ==
    <<"q", "u", "o", "t", "a">>

N_LIMIT ==
    <<"l", "i", "m", "i", "t">>

N_NO_TEXT_FOUND ==
    <<"n", "o", " ", "t", "e", "x", "t", " ", "f", "o", "u", "n", "d">>

N_API_KEY ==
    <<"a", "p", "i", " ", "k", "e", "y">>

N_401 ==
    <<"4", "0", "1">>

E_TIMEOUT ==
    <<"L", "l", "a", "m", "a", " ", "A", "P", "I", " ", "r", "e", "q", "u",
      "e", "s", "t", " ", "t", "i", "m", "e", "d", " ", "o", "u", "t", " ",
      "a", "f", "t", "e", "r", " ", "1", "2", "0", " ", "s", "e", "c", "o",
      "n", "d", "s">>

E_CONNECT ==
    <<"F", "a", "i", "l", "e", "d", " ", "t", "o", " ", "c", "o", "n", "n",
      "e", "c", "t", " ", "t", "o", " ", "L", "l", "a", "m", "a", " ", "A",
      "P", "I">>

P_UNEXPECTED ==
    <<"U", "n", "e", "x", "p", "e", "c", "t", "e", "d", " ", "e", "r", "r",
      "o", "r", " ", "i", "n", " ", "L", "l", "a", "m", "a", " ", "r", "e",
      "q", "u", "e", "s", "t", ":", " ">>

E_STATUS_500 ==
    <<"l", "l", "a", "m", "a", "A", "P", "I", " ", "r", "e", "t", "u", "r",
      "n", "e", "d", " ", "5", "0", "0", ":", " ", "I", "n", "t", "e", "r",
      "n", "a", "l", " ", "S", "e", "r", "v", "e", "r", " ", "E", "r", "r",
      "o", "r">>

E_STATUS_401 ==
    <<"l", "l", "a", "m", "a", "A", "P", "I", " ", "r", "e", "t", "u", "r",
      "n", "e", "d", " ", "4", "0", "1", ":", " ", "U", "n", "a", "u", "t",
      "h", "o", "r", "i", "z", "e", "d">>

E_EMPTY_RESPONSE ==
    <<"L", "l", "a", "m", "a", " ", "A", "P", "I", " ", "r", "e", "t", "u",
      "r", "n", "e", "d", " ", "a", "n", " ", "e", "m", "p", "t", "y", " ",
      "r", "e", "s", "p", "o", "n", "s", "e", ".">>

P_FAILED_JSON ==
    <<"F", "a", "i", "l", "e", "d", " ", "t", "o", " ", "p", "a", "r", "s",
      "e", " ", "J", "S", "O", "N", " ", "f", "r", "o", "m", " ", "l", "l",
      "a", "m", "a", " ", "r", "e", "s", "p", "o", "n", "s", "e", ":", " ">>

J_VALUE ==
    <<"E", "x", "p", "e", "c", "t", "i", "n", "g", " ", "v", "a", "l", "u",
      "e", ":", " ", "l", "i", "n", "e", " ", "1", " ", "c", "o", "l", "u",
      "m", "n", " ", "1", " ", "(", "c", "h", "a", "r", " ", "0", ")">>

J_DELIMITER ==
    <<"E", "x", "p", "e", "c", "t", "i", "n", "g", " ", "'", ":", "'", " ",
      "d", "e", "l", "i", "m", "i", "t", "e", "r", ":", " ", "l", "i", "n",
      "e", " ", "1", " ", "c", "o", "l", "u", "m", "n", " ", "6", " ", "(",
      "c", "h", "a", "r", " ", "5", ")">>

J_PROPERTY ==
    <<"E", "x", "p", "e", "c", "t", "i", "n", "g", " ", "p", "r", "o", "p",
      "e", "r", "t", "y", " ", "n", "a", "m", "e", " ", "e", "n", "c", "l",
      "o", "s", "e", "d", " ", "i", "n", " ", "d", "o", "u", "b", "l", "e",
      " ", "q", "u", "o", "t", "e", "s", ":", " ", "l", "i", "n", "e", " ",
      "1", " ", "c", "o", "l", "u", "m", "n", " ", "2", " ", "(", "c", "h",
      "a", "r", " ", "1", ")">>

P_OBJECT ==
    <<"{", "\"", "M", "_", "f", "e", "_", "n", "u", "m", "\"", ":", "\"",
      "F", "8", "3", "2", "\"", "}">>

P_ARRAY ==
    <<"[", "]">>

P_ITEM ==
    <<"{", "\"", "i", "t", "e", "m", "s", "\"", ":", "[", "{", "\"", "M",
      "_", "f", "l", "_", "d", "e", "s", "i", "g", "\"", ":", "\"", "C", "H",
      "A", "I", "S", "E", "\"", "}", "]", "}">>

P_NO_COLON ==
    <<"{", "\"", "a", "\"", " ", "1", "}">>

P_BARE_KEY ==
    <<"{", "a", ":", "1", "}">>

P_PROSE ==
    <<"S", "o", "r", "r", "y">>

\* the backquote character, which a string of this notation cannot hold
Backquote == "backquote"

T_FENCE ==
    <<Backquote, Backquote, Backquote>>

T_JSON ==
    <<"j", "s", "o", "n">>

X_F832 ==
    <<"F", "8", "3", "2">>

LowerChar(c) ==
    IF \E i \in 1..26 : UpperLetters[i] = c
    THEN LowerLetters[CHOOSE i \in 1..26 : UpperLetters[i] = c]
    ELSE c

Lower(s) == [i \in 1..Len(s) |-> LowerChar(s[i])]

\* needle in str(e).lower()
Has(msg, needle) == Contains(Lower(msg), needle)

\* ------------------------------------------------------------------------
\* Text extraction for an upload: extract_text_with_custom_ocr
\* ------------------------------------------------------------------------
\* truth value and .strip() of what extract_text returned: a pair is a
\* non-empty tuple, and a tuple has no strip
PyTruthy(v) == IF v.k = "tuple" THEN TRUE ELSE v.text # << >>

PyStrip(v) == IF v.k = "tuple" THEN Raise("AttributeError") ELSE Ok(Strip(v.text))

\* the outcome of the function: an exception with its message, or a text
Raised(msg) == [raised |-> TRUE, msg |-> msg, text |-> << >>, cleaned |-> FALSE]

Returns(text, cleaned) == [raised |-> FALSE, msg |-> << >>, text |-> text, cleaned |-> cleaned]

T_PAGE_BREAK ==
    <<"\n", "\n", "-", "-", "-", " ", "P", "A", "G", "E", " ", "B", "R", "E", "A", "K",
      " ", "-", "-", "-", "\n", "\n">>

RECURSIVE JoinPages(_)
JoinPages(texts) ==
    IF Len(texts) = 1 THEN texts[1]
    ELSE texts[1] \o T_PAGE_BREAK \o JoinPages(Tail(texts))

\* one page or image: its temporary file is written, extract_text is called
\* on it, and the result is tested with 'x and x.strip()'
PageText(loaded, available, page) ==
    IF page.write = "fails" THEN [raised |-> TRUE, msg |-> E_NO_SPACE, keep |-> FALSE, text |-> << >>]
    ELSE Only({
        IF done.exc # ""
        THEN [raised |-> TRUE, msg |-> E_NO_SPACE, keep |-> FALSE, text |-> << >>]
        ELSE IF ~PyTruthy(done.result)
        THEN [raised |-> FALSE, msg |-> << >>, keep |-> FALSE, text |-> << >>]
        ELSE IF PyStrip(done.result).exc # ""
        THEN [raised |-> TRUE, msg |-> E_TUPLE_STRIP, keep |-> FALSE, text |-> << >>]
        ELSE [raised |-> FALSE, msg |-> << >>,
              keep |-> PyStrip(done.result).v # << >>, text |-> done.result.text] :
        done \in {ExtractText(loaded, available, page.call)} })

\* the page loop of a PDF: the texts kept so far, until a page raises
RECURSIVE PageLoop(_, _, _, _, _)
PageLoop(loaded, available, pages, i, all_text) ==
    IF i > Len(pages) THEN [raised |-> FALSE, msg |-> << >>, all_text |-> all_text, processed |-> i - 1]
    ELSE Only({
        IF r.raised THEN [raised |-> TRUE, msg |-> r.msg, all_text |-> all_text, processed |-> i]
        ELSE PageLoop(loaded, available, pages, i + 1,
                      IF r.keep THEN Append(all_text, r.text) ELSE all_text) :
        r \in {PageText(loaded, available, pages[i])} })

\* extract_text_with_custom_ocr(file_content, filename) for a PDF whose
\* conversion gives the pages, or fails with the message
ExtractPdf(loaded, available, conversion, pages) ==
    IF conversion # << >>
    THEN Raised(P_CUSTOM_OCR \o P_FAILED_CONVERT \o conversion)
    ELSE Only({
        IF loop.raised THEN Raised(P_CUSTOM_OCR \o P_FAILED_CONVERT \o loop.msg)
        ELSE IF loop.all_text = << >> THEN Returns(T_NO_TEXT_PDF, FALSE)
        ELSE Returns(JoinPages(loop.all_text), TRUE) :
        loop \in {PageLoop(loaded, available, pages, 1, << >>)} })

\* ... and for an image
ExtractImage(loaded, available, page) ==
    Only({
        IF r.raised THEN Raised(P_CUSTOM_OCR \o r.msg)
        ELSE IF ~r.keep THEN Returns(T_NO_TEXT, FALSE)
        ELSE Returns(r.text, TRUE) :
        r \in {PageText(loaded, available, page)} })

\* the HTTPException upload_invoice raises for an exception of the text
\* extraction, after the substrings of its lower-cased message
HttpError(status, kind, msg) == [status |-> status, kind |-> kind, msg |-> msg]

OcrError(msg) ==
    IF Has(msg, N_PDF2IMAGE) \/ Has(msg, N_POPPLER) THEN HttpError(500, "pdf processing failed", << >>)
    ELSE IF Has(msg, N_CREDENTIALS) \/ Has(msg, N_AUTHENTICATION)
    THEN HttpError(500, "ocr authentication failed", << >>)
    ELSE IF Has(msg, N_QUOTA) \/ Has(msg, N_LIMIT) THEN HttpError(500, "ocr quota exceeded", << >>)
    ELSE IF Has(msg, N_NO_TEXT_FOUND) THEN HttpError(400, "no readable text", << >>)
    ELSE HttpError(500, "text extraction failed", msg)

\* not t or not t.strip() or t.strip() == 'No text found.'; clean_text
\* strips its result and removes no character but white space, so a cleaned
\* text is blank exactly when the raw one is
NoTextExtracted(text) == Strip(text) = << >> \/ Strip(text) = T_NO_TEXT

\* the except clause that closes upload_invoice catches the HTTPException
\* raised inside its try block as well: the client gets status 500, the
\* exception raised inside is its detail
Unexpected(inner) == [status |-> 500, kind |-> "unexpected error", inner |-> inner]

Direct(error) == [status |-> error.status, kind |-> error.kind, inner |-> error]

\* ------------------------------------------------------------------------
\* The reasoning service and the decoding of its reply (upload_invoice,
\* parse_invoice_with_llama)
\* ------------------------------------------------------------------------
P_REPR ==
    <<"{", "'", "r", "e", "s", "p", "o", "n", "s", "e", "'", ":", " ", "'",
      "'", "}">>

E_DB_INSERT ==
    <<"1", "1", "4", "6", " ", "(", "4", "2", "S", "0", "2", ")", ":", " ",
      "T", "a", "b", "l", "e", " ", "'", "w", "d", "o", "p", "t", "i", "t",
      "r", "a", "n", "s", "i", "t", "_", "k", "h", "a", "l", "a", "d", "i",
      ".", "i", "n", "v", "o", "i", "c", "e", "s", "'", " ", "d", "o", "e",
      "s", "n", "'", "t", " ", "e", "x", "i", "s", "t">>

\* what the request to the service can end with
LlamaOutcome(kind, text) == [kind |-> kind, text |-> text]

\* parse_invoice_with_llama: the exceptions of the request are re-raised with
\* a message of their own; the exception raised for a status other than 200
\* is caught by the last clause
ParseInvoiceWithLlama(outcome) ==
    IF outcome.kind = "timeout" THEN Raised(E_TIMEOUT)
    ELSE IF outcome.kind = "connection" THEN Raised(E_CONNECT)
    ELSE IF outcome.kind = "status" THEN Raised(P_UNEXPECTED \o outcome.text)
    ELSE Returns(outcome.text, FALSE)

\* response.get('response', '') or ... or str(llama_response), for a
\* response {'response': text}
AssistantReply(text) == IF text # << >> THEN text ELSE P_REPR

\* smallest i >= from where p occurs in s, 0 if none
IndexOf(s, p, from) ==
    IF \E i \in from..(Len(s) - Len(p) + 1) : SubSeq(s, i, i + Len(p) - 1) = p
    THEN CHOOSE i \in from..(Len(s) - Len(p) + 1) :
            /\ SubSeq(s, i, i + Len(p) - 1) = p
            /\ \A j \in from..(i - 1) : SubSeq(s, j, j + Len(p) - 1) # p
    ELSE 0

\* re.search(r'```(?:json)?\s*([\s\S]+?)\s*```', reply): the text between the
\* first fence, with its annotation and white space, and the next fence
FencedBlock(reply) ==
    IF IndexOf(reply, T_FENCE, 1) = 0 THEN [found |-> FALSE, text |-> << >>]
    ELSE Only({ Only({
            IF IndexOf(reply, T_FENCE, Len(reply) - Len(body) + 2) = 0
            THEN [found |-> FALSE, text |-> << >>]
            ELSE [found |-> TRUE,
                  text |-> RStrip(SubSeq(reply, Len(reply) - Len(body) + 1,
                             IndexOf(reply, T_FENCE, Len(reply) - Len(body) + 2) - 1))] :
            body \in {LStrip(IF StartsWith(after, T_JSON) THEN Drop(after, 4) ELSE after)} }) :
        after \in {Drop(reply, IndexOf(reply, T_FENCE, 1) + 2)} })

RECURSIVE LStripBackquotes(_)
LStripBackquotes(s) ==
    IF s # << >> /\ Head(s) = Backquote THEN LStripBackquotes(Tail(s)) ELSE s

RECURSIVE RStripBackquotes(_)
RStripBackquotes(s) ==
    IF s # << >> /\ s[Len(s)] = Backquote THEN RStripBackquotes(Take(s, Len(s) - 1)) ELSE s

\* the payload cleaned for the second attempt
CleanedJson(json_string) ==
    Only({ IF StartsWith(c, T_JSON) THEN Strip(Drop(c, 4)) ELSE c :
           c \in {RStripBackquotes(LStripBackquotes(Strip(json_string)))} })

\* the drafts the payloads of the model decode to
D_OBJECT == Header(Str(X_F832), Absent, Absent, Absent, Absent, Absent,
                   [k |-> "absent", v |-> << >>])

D_EMPTY == Header(Absent, Absent, Absent, Absent, Absent, Absent,
                  [k |-> "absent", v |-> << >>])

D_ARRAY == [D_EMPTY EXCEPT !.isDict = FALSE]

D_ITEM == [D_EMPTY EXCEPT !.items =
              Items(<<[isDict |-> TRUE, AvecSansPaiment |-> Absent, M_fl_Ngp |-> Absent,
                       M_fl_art |-> Absent, M_fl_desig |-> Str(X_CHAISE),
                       M_fl_orig |-> Absent, quantity |-> Absent, M_fl_unite |-> Absent,
                       M_fl_PNet |-> Absent, M_fl_PBrut |-> Absent,
                       M_fl_valDev |-> Absent]>>)]

Decoded(d) == [ok |-> TRUE, draft |-> d, msg |-> << >>]

NotDecoded(msg) == [ok |-> FALSE, draft |-> Null, msg |-> msg]

\* json.loads on the payloads of the model: the three well-formed ones, and
\* the message of JSONDecodeError for the others
JsonLoads(s) ==
    IF s = P_OBJECT THEN Decoded(D_OBJECT)
    ELSE IF s = P_ARRAY THEN Decoded(D_ARRAY)
    ELSE IF s = P_ITEM THEN Decoded(D_ITEM)
    ELSE IF s = P_NO_COLON THEN NotDecoded(J_DELIMITER)
    ELSE IF s # << >> /\ s[1] = "{" THEN NotDecoded(J_PROPERTY)
    ELSE NotDecoded(J_VALUE)

\* demjson3.decode: also accepts unquoted keys and single-quoted strings
DemjsonDecode(s) ==
    IF JsonLoads(s).ok THEN JsonLoads(s)
    ELSE IF s \in {P_BARE_KEY, P_REPR} THEN Decoded(D_EMPTY)
    ELSE NotDecoded(J_VALUE)

\* the cascade gives up: raise Exception("Failed to parse JSON from llama
\* response: ...") with the message of the first decoder
ExhaustedKeepsEmptyDraft(msg) == Decoded(D_EMPTY)

Exhausted(msg) == NotDecoded(P_FAILED_JSON \o msg)

Attempted(result, attempts) ==
    [ok |-> result.ok, draft |-> result.draft, msg |-> result.msg, attempts |-> attempts]

\* a cascade that stops after the strict decoder
DecodeReplyStrictOnly(reply, lenient) ==
    IF Strip(reply) = << >> THEN Attempted(NotDecoded(E_EMPTY_RESPONSE), << >>)
    ELSE Only({
        IF strict.ok THEN Attempted(strict, <<"strict">>)
        ELSE Attempted(Exhausted(strict.msg), <<"strict">>) :
        strict \in {JsonLoads(IF FencedBlock(reply).found THEN FencedBlock(reply).text
                              ELSE Strip(reply))} })

\* the decoding cascade of upload_invoice on the assistant's reply
DecodeReply(reply, lenient) ==
    IF Strip(reply) = << >> THEN Attempted(NotDecoded(E_EMPTY_RESPONSE), << >>)
    ELSE Only({ Only({
            IF strict.ok THEN Attempted(strict, <<"strict">>)
            ELSE IF JsonLoads(CleanedJson(json_string)).ok
            THEN Attempted(JsonLoads(CleanedJson(json_string)), <<"strict", "cleaned">>)
            ELSE IF ~lenient
            THEN Attempted(Exhausted(strict.msg), <<"strict", "cleaned">>)
            ELSE IF DemjsonDecode(CleanedJson(json_string)).ok
            THEN Attempted(DemjsonDecode(CleanedJson(json_string)),
                           <<"strict", "cleaned", "lenient">>)
            ELSE Attempted(Exhausted(strict.msg), <<"strict", "cleaned", "lenient">>) :
            strict \in {JsonLoads(json_string)} }) :
        json_string \in {IF FencedBlock(reply).found THEN FencedBlock(reply).text
                         ELSE Strip(reply)} })

\* the HTTPException upload_invoice raises for an exception of the parsing
\* block, after the substrings of its message
LlamaError(msg) ==
    IF Has(msg, N_API_KEY) \/ Has(msg, N_AUTHENTICATION) \/ Contains(msg, N_401)
    THEN HttpError(500, "llama authentication failed", << >>)
    ELSE IF Has(msg, N_QUOTA) \/ Has(msg, N_LIMIT)
    THEN HttpError(500, "llama quota exceeded", << >>)
    ELSE HttpError(500, "failed to parse invoice", msg)

\* ------------------------------------------------------------------------
\* Regular expressions: Python's re with flags=re.IGNORECASE, as clean_text
\* and extract_invoice_metadata call it
\*
\* A text is a sequence of characters and a position the number of
\* characters before it.  A pattern is a sequence of nodes; matching a
\* pattern at a position gives the sequence of its possible matches in the
\* order the backtracking matcher tries them, so that the first is the match
\* Python returns.
\* ------------------------------------------------------------------------
\* the characters of a string
Chars(str) == [i \in 1..Len(str) |-> SubSeq(str, i, i)]

\* the case folding of the characters of these patterns and texts
FoldChar(c) ==
    IF \E i \in 1..26 : UpperLetters[i] = c
    THEN LowerLetters[CHOOSE i \in 1..26 : UpperLetters[i] = c]
    ELSE CASE c = "É" -> "é" [] c = "È" -> "è" [] c = "À" -> "à" [] OTHER -> c

Fold(s) == [i \in 1..Len(s) |-> FoldChar(s[i])]

\* no upper limit of a repetition
Unbounded == 0 - 1

\* the nodes: a literal text, a character class (its characters and, of its
\* categories, "d" for \d and 0-9, "s" for \s, "A-Z" and "." for any
\* character but a newline), a greedy and a lazy repetition, a group with
\* its alternatives (g = 0: not capturing), a lookahead and the $ anchor
Lit(str) == [t |-> "lit", s |-> Fold(Chars(str))]

In(str, cats) ==
    [t |-> "in", chars |-> {FoldChar(Chars(str)[i]) : i \in 1..Len(str)}, cats |-> cats]

Rep(min, max, body) == [t |-> "rep", min |-> min, max |-> max, lazy |-> FALSE, body |-> body]

Lazy(min, max, body) == [t |-> "rep", min |-> min, max |-> max, lazy |-> TRUE, body |-> body]

Grp(g, alts) == [t |-> "grp", g |-> g, alts |-> alts]

Ahead(body) == [t |-> "ahead", body |-> body]

AtEnd == [t |-> "end"]

\* does the class match the character?
InClass(c, n) ==
    \/ FoldChar(c) \in n.chars
    \/ "d" \in n.cats /\ IsDigit(c)
    \/ "s" \in n.cats /\ IsSpace(c)
    \/ "A-Z" \in n.cats /\ IsLetter(c)
    \/ "." \in n.cats /\ c # "\n"

\* the groups of a match: (start, end) of each, NoGroup when it took no part
MaxGroups == 3

NoGroup == <<0 - 1, 0 - 1>>

NoGroups == [g \in 1..MaxGroups |-> NoGroup]

Matched(e, caps) == [e |-> e, caps |-> caps]

RECURSIVE MatchSeq(_, _, _, _, _)
RECURSIVE MatchNode(_, _, _, _)
RECURSIVE ThenRest(_, _, _, _, _)
RECURSIVE MatchRep(_, _, _, _, _)
RECURSIVE RepAgain(_, _, _, _, _, _)
RECURSIVE MatchAlts(_, _, _, _, _)
RECURSIVE CloseGroup(_, _, _, _)

\* the number of characters of a class that follow position p
RunLength(n, s, p) ==
    IF \A i \in (p + 1)..Len(s) : InClass(s[i], n) THEN Len(s) - p
    ELSE (CHOOSE i \in (p + 1)..Len(s) :
             /\ ~InClass(s[i], n)
             /\ \A j \in (p + 1)..(i - 1) : InClass(s[j], n)) - p - 1

\* the repetition of one class over a run of its characters: the longest
\* first when greedy, the shortest first when lazy
MatchRun(n, s, p, caps, run) ==
    LET most == IF n.max = Unbounded \/ run < n.max THEN run ELSE n.max IN
    IF most < n.min THEN << >>
    ELSE [i \in 1..(most - n.min + 1) |->
            Matched(IF n.lazy THEN p + n.min + i - 1 ELSE p + most - i + 1, caps)]

\* the matches of the nodes re[i..] at position p
MatchSeq(re, i, s, p, caps) ==
    IF i > Len(re) THEN <<Matched(p, caps)>>
    ELSE ThenRest(re, i + 1, s, MatchNode(re[i], s, p, caps), 1)

\* the matches of the rest of the pattern after each match rs[k..] of a node
ThenRest(re, i, s, rs, k) ==
    IF k > Len(rs) THEN << >>
    ELSE MatchSeq(re, i, s, rs[k].e, rs[k].caps) \o ThenRest(re, i, s, rs, k + 1)

MatchNode(n, s, p, caps) ==
    CASE n.t = "lit" ->
            IF p + Len(n.s) <= Len(s) /\ Fold(SubSeq(s, p + 1, p + Len(n.s))) = n.s
            THEN <<Matched(p + Len(n.s), caps)>> ELSE << >>
      [] n.t = "in" ->
            IF p < Len(s) /\ InClass(s[p + 1], n)
            THEN <<Matched(p + 1, caps)>> ELSE << >>
      [] n.t = "rep" ->
            IF Len(n.body) = 1 /\ n.body[1].t = "in"
            THEN MatchRun(n, s, p, caps, RunLength(n.body[1], s, p))
            ELSE MatchRep(n, s, p, caps, 0)
      [] n.t = "grp" -> MatchAlts(n, 1, s, p, caps)
      [] n.t = "ahead" ->
            IF MatchSeq(n.body, 1, s, p, caps) # << >>
            THEN <<Matched(p, MatchSeq(n.body, 1, s, p, caps)[1].caps)>> ELSE << >>
      [] n.t = "end" ->
            IF p = Len(s) \/ (p = Len(s) - 1 /\ s[Len(s)] = "\n")
            THEN <<Matched(p, caps)>> ELSE << >>

\* a repetition that has matched count times: one more first when greedy,
\* stopping first when lazy
MatchRep(n, s, p, caps, count) ==
    LET more == IF n.max = Unbounded \/ count < n.max
                THEN RepAgain(n, s, MatchSeq(n.body, 1, s, p, caps), 1, p, count)
                ELSE << >>
        stop == IF count >= n.min THEN <<Matched(p, caps)>> ELSE << >>
    IN  IF n.lazy THEN stop \o more ELSE more \o stop

RepAgain(n, s, rs, k, p, count) ==
    IF k > Len(rs) THEN << >>
    ELSE (IF rs[k].e > p THEN MatchRep(n, s, rs[k].e, rs[k].caps, count + 1) ELSE << >>)
         \o RepAgain(n, s, rs, k + 1, p, count)

\* the alternatives of a group in their order
MatchAlts(n, a, s, p, caps) ==
    IF a > Len(n.alts) THEN << >>
    ELSE CloseGroup(n.g, p, MatchSeq(n.alts[a], 1, s, p, caps), 1)
         \o MatchAlts(n, a + 1, s, p, caps)

CloseGroup(g, p, rs, k) ==
    IF k > Len(rs) THEN << >>
    ELSE <<Matched(rs[k].e, IF g = 0 THEN rs[k].caps
                            ELSE [rs[k].caps EXCEPT ![g] = <<p, rs[k].e>>])>>
         \o CloseGroup(g, p, rs, k + 1)

\* the text of group g of a match, "" when the group took no part
GroupText(s, caps, g) ==
    IF caps[g] = NoGroup THEN << >> ELSE SubSeq(s, caps[g][1] + 1, caps[g][2])

\* re.findall for a pattern with one group: the texts of the group in the
\* matches found from left to right, each search starting where the match
\* before it ended
RECURSIVE FindAllFrom(_, _, _)
FindAllFrom(re, s, p) ==
    IF p > Len(s) THEN << >>
    ELSE LET rs == MatchSeq(re, 1, s, p, NoGroups) IN
         IF rs = << >> THEN FindAllFrom(re, s, p + 1)
         ELSE <<GroupText(s, rs[1].caps, 1)>>
              \o FindAllFrom(re, s, IF rs[1].e > p THEN rs[1].e ELSE p + 1)

FindAll(re, s) == FindAllFrom(re, s, 0)

\* a replacement template: texts and references to groups
Ref(g) == [g |-> g, s |-> << >>]

Txt(str) == [g |-> 0, s |-> Chars(str)]

RECURSIVE Expand(_, _, _)
Expand(template, s, caps) ==
    IF template = << >> THEN << >>
    ELSE (IF Head(template).g = 0 THEN Head(template).s
          ELSE GroupText(s, caps, Head(template).g))
         \o Expand(Tail(template), s, caps)

\* re.sub: every match from left to right replaced by the template
RECURSIVE SubFrom(_, _, _, _)
SubFrom(re, template, s, p) ==
    IF p > Len(s) THEN << >>
    ELSE LET rs == MatchSeq(re, 1, s, p, NoGroups) IN
         IF rs = << >>
         THEN IF p = Len(s) THEN << >> ELSE <<s[p + 1]>> \o SubFrom(re, template, s, p + 1)
         ELSE IF rs[1].e > p
         THEN Expand(template, s, rs[1].caps) \o SubFrom(re, template, s, rs[1].e)
         ELSE Expand(template, s, rs[1].caps)
              \o (IF p = Len(s) THEN << >>
                  ELSE <<s[p + 1]>> \o SubFrom(re, template, s, p + 1))

Sub(re, template, s) == SubFrom(re, template, s, 0)

\* re.split for a pattern without groups: the texts between the matches
RECURSIVE SplitFrom(_, _, _, _)
SplitFrom(re, s, from, p) ==
    IF p > Len(s) THEN <<SubSeq(s, from + 1, Len(s))>>
    ELSE LET rs == MatchSeq(re, 1, s, p, NoGroups) IN
         IF rs = << >> \/ rs[1].e = p THEN SplitFrom(re, s, from, p + 1)
         ELSE <<SubSeq(s, from + 1, p)>> \o SplitFrom(re, s, rs[1].e, rs[1].e)

SplitRe(re, s) == SplitFrom(re, s, 0, 0)

\* ------------------------------------------------------------------------
\* clean_text (src/full.py 46-204)
\* ------------------------------------------------------------------------
Replacement(old, new) == [old |-> Chars(old), new |-> Chars(new)]

Rule(re, repl) == [re |-> re, repl |-> repl]

\* lines 49-73: the replacements of clean_text, in the order of the dictionary
replacements ==
    <<
      \* line 50: 'Num�ro': 'Numéro'
      Replacement("Num�ro", "Numéro"),
      \* line 51: 'R�f�rence': 'Référence'
      Replacement("R�f�rence", "Référence"),
      \* line 52: 'D�signation': 'Désignation'
      Replacement("D�signation", "Désignation"),
      \* line 53: 'Qt�': 'Qté'
      Replacement("Qt�", "Qté"),
      \* line 54: 'Unit�': 'Unité'
      Replacement("Unit�", "Unité"),
      \* line 55: 'Pi�ce': 'Pièce'
      Replacement("Pi�ce", "Pièce"),
      \* line 56: 'r�glement': 'règlement'
      Replacement("r�glement", "règlement"),
      \* line 57: '�ch�ance': 'échéance'
      Replacement("�ch�ance", "échéance"),
      \* line 58: 'Arr�t�e': 'Arrêtée'
      Replacement("Arr�t�e", "Arrêtée"),
      \* line 59: 'pr�sente': 'présente'
      Replacement("pr�sente", "présente"),
      \* line 60: '�tage': 'étage'
      Replacement("�tage", "étage"),
      \* line 61: 'T�l': 'Tél'
      Replacement("T�l", "Tél"),
      \* line 62: 'Cr�dit': 'Crédit'
      Replacement("Cr�dit", "Crédit"),
      \* line 63: 'p�nalit�': 'pénalité'
      Replacement("p�nalit�", "pénalité"),
      \* line 64: 'd�lais': 'délais'
      Replacement("d�lais", "délais"),
      \* line 65: 'R�gularit�': 'Régularité'
      Replacement("R�gularit�", "Régularité"),
      \* line 66: '�': 'é'
      Replacement("�", "é"),
      \* line 68: 'TOTAI': 'TOTAL'
      Replacement("TOTAI", "TOTAL"),
      \* line 69: 'TOTALI': 'TOTAL'
      Replacement("TOTALI", "TOTAL"),
      \* line 70: 'TQTAL': 'TOTAL'
      Replacement("TQTAL", "TOTAL"),
      \* line 71: 'Montant TTC': 'TOTAL TTC'
      Replacement("Montant TTC", "TOTAL TTC"),
      \* line 72: 'Montant HT': 'TOTAL HT'
      Replacement("Montant HT", "TOTAL HT")
    >>

\* lines 81-140
structure_patterns ==
    <<
      \* line 83: (r'(\s)(Facture)', r'\1\n\2')
      Rule(<<Grp(1, <<<<In("", {"s"})>>>>), Grp(2, <<<<Lit("Facture")>>>>)>>, <<Ref(1),
        Txt("\n"), Ref(2)>>),
      \* line 84: (r'(\s)(FACTURE)', r'\1\n\2')
      Rule(<<Grp(1, <<<<In("", {"s"})>>>>), Grp(2, <<<<Lit("FACTURE")>>>>)>>, <<Ref(1),
        Txt("\n"), Ref(2)>>),
      \* line 85: (r'(\s)(N°)', r'\1\n\2')
      Rule(<<Grp(1, <<<<In("", {"s"})>>>>), Grp(2, <<<<Lit("N°")>>>>)>>, <<Ref(1),
        Txt("\n"), Ref(2)>>),
      \* line 86: (r'(\s)(Numéro)', r'\1\n\2')
      Rule(<<Grp(1, <<<<In("", {"s"})>>>>), Grp(2, <<<<Lit("Numéro")>>>>)>>, <<Ref(1),
        Txt("\n"), Ref(2)>>),
      \* line 87: (r'(\s)(Date)', r'\1\n\2')
      Rule(<<Grp(1, <<<<In("", {"s"})>>>>), Grp(2, <<<<Lit("Date")>>>>)>>, <<Ref(1),
        Txt("\n"), Ref(2)>>),
      \* line 88: (r'(\s)(Référence)', r'\1\n\2')
      Rule(<<Grp(1, <<<<In("", {"s"})>>>>), Grp(2, <<<<Lit("Référence")>>>>)>>, <<Ref(1),
        Txt("\n"), Ref(2)>>),
      \* line 91: (r'(\s)(INTEGRATEUR)', r'\1\n\2')
      Rule(<<Grp(1, <<<<In("", {"s"})>>>>), Grp(2, <<<<Lit("INTEGRATEUR")>>>>)>>,
        <<Ref(1), Txt("\n"), Ref(2)>>),
      \* line 92: (r'(\s)(Zone Franche)', r'\1\n\2')
      Rule(<<Grp(1, <<<<In("", {"s"})>>>>), Grp(2, <<<<Lit("Zone Franche")>>>>)>>,
        <<Ref(1), Txt("\n"), Ref(2)>>),
      \* line 93: (r'(\s)(I\.C\.E)', r'\1\n\2')
      Rule(<<Grp(1, <<<<In("", {"s"})>>>>), Grp(2, <<<<Lit("I.C.E")>>>>)>>, <<Ref(1),
        Txt("\n"), Ref(2)>>),
      \* line 94: (r'(\s)(RC)', r'\1\n\2')
      Rule(<<Grp(1, <<<<In("", {"s"})>>>>), Grp(2, <<<<Lit("RC")>>>>)>>, <<Ref(1),
        Txt("\n"), Ref(2)>>),
      \* line 95: (r'(\s)(Tél)', r'\1\n\2')
      Rule(<<Grp(1, <<<<In("", {"s"})>>>>), Grp(2, <<<<Lit("Tél")>>>>)>>, <<Ref(1),
        Txt("\n"), Ref(2)>>),
      \* line 98: (r'(\s)(Désignation)', r'\1\n\2')
      Rule(<<Grp(1, <<<<In("", {"s"})>>>>), Grp(2, <<<<Lit("Désignation")>>>>)>>,
        <<Ref(1), Txt("\n"), Ref(2)>>),
      \* line 99: (r'(\s)(Qté)', r'\1\n\2')
      Rule(<<Grp(1, <<<<In("", {"s"})>>>>), Grp(2, <<<<Lit("Qté")>>>>)>>, <<Ref(1),
        Txt("\n"), Ref(2)>>),
      \* line 100: (r'(\s)(Unité)', r'\1\n\2')
      Rule(<<Grp(1, <<<<In("", {"s"})>>>>), Grp(2, <<<<Lit("Unité")>>>>)>>, <<Ref(1),
        Txt("\n"), Ref(2)>>),
      \* line 101: (r'(\s)(Prix unitaire)', r'\1\n\2')
      Rule(<<Grp(1, <<<<In("", {"s"})>>>>), Grp(2, <<<<Lit("Prix unitaire")>>>>)>>,
        <<Ref(1), Txt("\n"), Ref(2)>>),
      \* line 102: (r'(\s)(Pièce)', r'\1\n\2')
      Rule(<<Grp(1, <<<<In("", {"s"})>>>>), Grp(2, <<<<Lit("Pièce")>>>>)>>, <<Ref(1),
        Txt("\n"), Ref(2)>>),
      \* line 103: (r'(\s)(Mètre)', r'\1\n\2')
      Rule(<<Grp(1, <<<<In("", {"s"})>>>>), Grp(2, <<<<Lit("Mètre")>>>>)>>, <<Ref(1),
        Txt("\n"), Ref(2)>>),
      \* line 106: (r'(\s)(STRUCTURE-)', r'\1\n\2')
      Rule(<<Grp(1, <<<<In("", {"s"})>>>>), Grp(2, <<<<Lit("STRUCTURE-")>>>>)>>, <<Ref(1),
        Txt("\n"), Ref(2)>>),
      \* line 107: (r'(\s)(HABILLAGE-)', r'\1\n\2')
      Rule(<<Grp(1, <<<<In("", {"s"})>>>>), Grp(2, <<<<Lit("HABILLAGE-")>>>>)>>, <<Ref(1),
        Txt("\n"), Ref(2)>>),
      \* line 108: (r'(\s)(PANNEAU-)', r'\1\n\2')
      Rule(<<Grp(1, <<<<In("", {"s"})>>>>), Grp(2, <<<<Lit("PANNEAU-")>>>>)>>, <<Ref(1),
        Txt("\n"), Ref(2)>>),
      \* line 109: (r'(\s)(LED-)', r'\1\n\2')
      Rule(<<Grp(1, <<<<In("", {"s"})>>>>), Grp(2, <<<<Lit("LED-")>>>>)>>, <<Ref(1),
        Txt("\n"), Ref(2)>>),
      \* line 110: (r'(\s)(BARDAGE-)', r'\1\n\2')
      Rule(<<Grp(1, <<<<In("", {"s"})>>>>), Grp(2, <<<<Lit("BARDAGE-")>>>>)>>, <<Ref(1),
        Txt("\n"), Ref(2)>>),
      \* line 111: (r'(\s)(POSE-)', r'\1\n\2')
      Rule(<<Grp(1, <<<<In("", {"s"})>>>>), Grp(2, <<<<Lit("POSE-")>>>>)>>, <<Ref(1),
        Txt("\n"), Ref(2)>>),
      \* line 114: (r'(\s)(TOTAL)', r'\1\n\2')
      Rule(<<Grp(1, <<<<In("", {"s"})>>>>), Grp(2, <<<<Lit("TOTAL")>>>>)>>, <<Ref(1),
        Txt("\n"), Ref(2)>>),
      \* line 115: (r'(\s)(Total)', r'\1\n\2')
      Rule(<<Grp(1, <<<<In("", {"s"})>>>>), Grp(2, <<<<Lit("Total")>>>>)>>, <<Ref(1),
        Txt("\n"), Ref(2)>>),
      \* line 116: (r'(\s)(Montant)', r'\1\n\2')
      Rule(<<Grp(1, <<<<In("", {"s"})>>>>), Grp(2, <<<<Lit("Montant")>>>>)>>, <<Ref(1),
        Txt("\n"), Ref(2)>>),
      \* line 117: (r'(\s)(NET À PAYER)', r'\1\n\2')
      Rule(<<Grp(1, <<<<In("", {"s"})>>>>), Grp(2, <<<<Lit("NET À PAYER")>>>>)>>,
        <<Ref(1), Txt("\n"), Ref(2)>>),
      \* line 118: (r'(\s)(À PAYER)', r'\1\n\2')
      Rule(<<Grp(1, <<<<In("", {"s"})>>>>), Grp(2, <<<<Lit("À PAYER")>>>>)>>, <<Ref(1),
        Txt("\n"), Ref(2)>>),
      \* line 119: (r'(\s)(Mode)', r'\1\n\2')
      Rule(<<Grp(1, <<<<In("", {"s"})>>>>), Grp(2, <<<<Lit("Mode")>>>>)>>, <<Ref(1),
        Txt("\n"), Ref(2)>>),
      \* line 120: (r'(\s)(Chèque)', r'\1\n\2')
      Rule(<<Grp(1, <<<<In("", {"s"})>>>>), Grp(2, <<<<Lit("Chèque")>>>>)>>, <<Ref(1),
        Txt("\n"), Ref(2)>>),
      \* line 123: (r'(\d{1,3}[,\.]\d{2,3}[,\.]\d{2})', r'\n\1')
      Rule(<<Grp(1, <<<<Rep(1, 3, <<In("", {"d"})>>), In(",.", {}), Rep(2, 3, <<In("",
        {"d"})>>), In(",.", {}), Rep(2, 2, <<In("", {"d"})>>)>>>>)>>, <<Txt("\n"), Ref(1)>>),
      \* line 124: (r'(\d{1,6}[,\.]\d{2})\s*(?=\d{1,6}[,\.]\d{2})', r'\1\n')
      Rule(<<Grp(1, <<<<Rep(1, 6, <<In("", {"d"})>>), In(",.", {}), Rep(2, 2, <<In("",
        {"d"})>>)>>>>), Rep(0, Unbounded, <<In("", {"s"})>>), Ahead(<<Rep(1, 6, <<In("",
        {"d"})>>), In(",.", {}), Rep(2, 2, <<In("", {"d"})>>)>>)>>, <<Ref(1), Txt("\n")>>),
      \* line 127: (r'(\d{1,6}[,\.]\d{2})\s*(EUR|DH|MAD|USD|\$)', r'\n\1 \2')
      Rule(<<Grp(1, <<<<Rep(1, 6, <<In("", {"d"})>>), In(",.", {}), Rep(2, 2, <<In("",
        {"d"})>>)>>>>), Rep(0, Unbounded, <<In("", {"s"})>>), Grp(2, <<<<Lit("EUR")>>,
        <<Lit("DH")>>, <<Lit("MAD")>>, <<Lit("USD")>>, <<Lit("$")>>>>)>>, <<Txt("\n"),
        Ref(1), Txt(" "), Ref(2)>>),
      \* line 128: (r'(EUR|DH|MAD|USD|\$)\s*(\d{1,6}[,\.]\d{2})', r'\n\1 \2')
      Rule(<<Grp(1, <<<<Lit("EUR")>>, <<Lit("DH")>>, <<Lit("MAD")>>, <<Lit("USD")>>,
        <<Lit("$")>>>>), Rep(0, Unbounded, <<In("", {"s"})>>), Grp(2, <<<<Rep(1, 6, <<In("",
        {"d"})>>), In(",.", {}), Rep(2, 2, <<In("", {"d"})>>)>>>>)>>, <<Txt("\n"), Ref(1),
        Txt(" "), Ref(2)>>),
      \* line 131: (r'(\d{1,2},\d{2})\s+([A-Z][A-Z-]+)', r'\1\n\2')
      Rule(<<Grp(1, <<<<Rep(1, 2, <<In("", {"d"})>>), Lit(","), Rep(2, 2, <<In("",
        {"d"})>>)>>>>), Rep(1, Unbounded, <<In("", {"s"})>>), Grp(2, <<<<In("", {"A-Z"}),
        Rep(1, Unbounded, <<In("-", {"A-Z"})>>)>>>>)>>, <<Ref(1), Txt("\n"), Ref(2)>>),
      \* line 132: (r'([A-Z-]+)\s+([A-Z][A-Z\s]+[0-9])', r'\1\n\2')
      Rule(<<Grp(1, <<<<Rep(1, Unbounded, <<In("-", {"A-Z"})>>)>>>>), Rep(1, Unbounded,
        <<In("", {"s"})>>), Grp(2, <<<<In("", {"A-Z"}), Rep(1, Unbounded, <<In("", {"A-Z",
        "s"})>>), In("", {"d"})>>>>)>>, <<Ref(1), Txt("\n"), Ref(2)>>),
      \* line 135: (r'(\d{2}/\d{2}/\d{4})', r'\n\1')
      Rule(<<Grp(1, <<<<Rep(2, 2, <<In("", {"d"})>>), Lit("/"), Rep(2, 2, <<In("",
        {"d"})>>), Lit("/"), Rep(4, 4, <<In("", {"d"})>>)>>>>)>>, <<Txt("\n"), Ref(1)>>),
      \* line 138: (r'(\s)(Arrêtée)', r'\1\n\2')
      Rule(<<Grp(1, <<<<In("", {"s"})>>>>), Grp(2, <<<<Lit("Arrêtée")>>>>)>>, <<Ref(1),
        Txt("\n"), Ref(2)>>),
      \* line 139: (r'(\s)(Une pénalité)', r'\1\n\2')
      Rule(<<Grp(1, <<<<In("", {"s"})>>>>), Grp(2, <<<<Lit("Une pénalité")>>>>)>>,
        <<Ref(1), Txt("\n"), Ref(2)>>)
    >>

\* lines 148-166
item_separation_patterns ==
    <<
      \* line 150: (r'([0-9,\.]+)\s+([A-Z][A-Z-]{2,}[-\s])', r'\1\n\2')
      Rule(<<Grp(1, <<<<Rep(1, Unbounded, <<In(",.", {"d"})>>)>>>>), Rep(1, Unbounded,
        <<In("", {"s"})>>), Grp(2, <<<<In("", {"A-Z"}), Rep(2, Unbounded, <<In("-",
        {"A-Z"})>>), In("-", {"s"})>>>>)>>, <<Ref(1), Txt("\n"), Ref(2)>>),
      \* line 151: (r'([A-Z-]+\s+[A-Z\s]+)\s+(\d+,?\d* )\s+(Pièce|Mètre)', r'\1\n\2 \3')
      Rule(<<Grp(1, <<<<Rep(1, Unbounded, <<In("-", {"A-Z"})>>), Rep(1, Unbounded,
        <<In("", {"s"})>>), Rep(1, Unbounded, <<In("", {"A-Z", "s"})>>)>>>>), Rep(1,
        Unbounded, <<In("", {"s"})>>), Grp(2, <<<<Rep(1, Unbounded, <<In("", {"d"})>>),
        Rep(0, 1, <<Lit(",")>>), Rep(0, Unbounded, <<In("", {"d"})>>)>>>>), Rep(1,
        Unbounded, <<In("", {"s"})>>), Grp(3, <<<<Lit("Pièce")>>, <<Lit("Mètre")>>>>)>>,
        <<Ref(1), Txt("\n"), Ref(2), Txt(" "), Ref(3)>>),
      \* line 152: (r'(Pièce|Mètre)\s+([0-9,\.]+)', r'\1\n\2')
      Rule(<<Grp(1, <<<<Lit("Pièce")>>, <<Lit("Mètre")>>>>), Rep(1, Unbounded, <<In("",
        {"s"})>>), Grp(2, <<<<Rep(1, Unbounded, <<In(",.", {"d"})>>)>>>>)>>, <<Ref(1),
        Txt("\n"), Ref(2)>>),
      \* line 155: (r'([0-9,\.]{3,})\s+([A-Z]{2,}[-\s])', r'\1\n\2')
      Rule(<<Grp(1, <<<<Rep(3, Unbounded, <<In(",.", {"d"})>>)>>>>), Rep(1, Unbounded,
        <<In("", {"s"})>>), Grp(2, <<<<Rep(2, Unbounded, <<In("", {"A-Z"})>>), In("-",
        {"s"})>>>>)>>, <<Ref(1), Txt("\n"), Ref(2)>>),
      \* line 156: (r'([A-Z-]{4,})\s+([A-Z][A-Z\s]{5,})', r'\1\n\2')
      Rule(<<Grp(1, <<<<Rep(4, Unbounded, <<In("-", {"A-Z"})>>)>>>>), Rep(1, Unbounded,
        <<In("", {"s"})>>), Grp(2, <<<<In("", {"A-Z"}), Rep(5, Unbounded, <<In("", {"A-Z",
        "s"})>>)>>>>)>>, <<Ref(1), Txt("\n"), Ref(2)>>),
      \* line 159: (r'(\d+,\d{2})\s+(\d+,\d{2})', r'\1\n\2')
      Rule(<<Grp(1, <<<<Rep(1, Unbounded, <<In("", {"d"})>>), Lit(","), Rep(2, 2, <<In("",
        {"d"})>>)>>>>), Rep(1, Unbounded, <<In("", {"s"})>>), Grp(2, <<<<Rep(1, Unbounded,
        <<In("", {"d"})>>), Lit(","), Rep(2, 2, <<In("", {"d"})>>)>>>>)>>, <<Ref(1),
        Txt("\n"), Ref(2)>>),
      \* line 160: (r'([0-9]{1,3},\d{2})\s+([0-9]{1,3},\d{2})', r'\1\n\2')
      Rule(<<Grp(1, <<<<Rep(1, 3, <<In("", {"d"})>>), Lit(","), Rep(2, 2, <<In("",
        {"d"})>>)>>>>), Rep(1, Unbounded, <<In("", {"s"})>>), Grp(2, <<<<Rep(1, 3, <<In("",
        {"d"})>>), Lit(","), Rep(2, 2, <<In("", {"d"})>>)>>>>)>>, <<Ref(1), Txt("\n"),
        Ref(2)>>),
      \* line 161: (r'([0-9]{1,6}\.\d{3},\d{2})', r'\n\1')
      Rule(<<Grp(1, <<<<Rep(1, 6, <<In("", {"d"})>>), Lit("."), Rep(3, 3, <<In("",
        {"d"})>>), Lit(","), Rep(2, 2, <<In("", {"d"})>>)>>>>)>>, <<Txt("\n"), Ref(1)>>),
      \* line 164: (r'([A-Z]{2}[0-9]{6})', r'\n\1')
      Rule(<<Grp(1, <<<<Rep(2, 2, <<In("", {"A-Z"})>>), Rep(6, 6, <<In("",
        {"d"})>>)>>>>)>>, <<Txt("\n"), Ref(1)>>),
      \* line 165: (r'(0[0-9]/[0-9]{2}/[0-9]{4})', r'\n\1')
      Rule(<<Grp(1, <<<<Lit("0"), In("", {"d"}), Lit("/"), Rep(2, 2, <<In("", {"d"})>>),
        Lit("/"), Rep(4, 4, <<In("", {"d"})>>)>>>>)>>, <<Txt("\n"), Ref(1)>>)
    >>

\* line 173: re.sub(r'(\d)\s+(\d)', r'\1\2', cleaned_text)
JoinDigits ==
    Rule(<<Grp(1, <<<<In("", {"d"})>>>>), Rep(1, Unbounded, <<In("", {"s"})>>), Grp(2,
         <<<<In("", {"d"})>>>>)>>,
         <<Ref(1), Ref(2)>>)

\* line 174: re.sub(r'([0-9])\s*([,.])\s*([0-9])', r'\1\2\3', cleaned_text)
JoinSeparator ==
    Rule(<<Grp(1, <<<<In("", {"d"})>>>>), Rep(0, Unbounded, <<In("", {"s"})>>), Grp(2,
         <<<<In(",.", {})>>>>), Rep(0, Unbounded, <<In("", {"s"})>>), Grp(3, <<<<In("",
         {"d"})>>>>)>>,
         <<Ref(1), Ref(2), Ref(3)>>)

\* line 177: re.sub(r'[ \t]+', ' ', cleaned_text)
OneSpace ==
    Rule(<<Rep(1, Unbounded, <<In(" \t", {})>>)>>,
         <<Txt(" ")>>)

\* line 178: re.sub(r'\n\s*\n', '\n', cleaned_text)
NoEmptyLines ==
    Rule(<<Lit("\n"), Rep(0, Unbounded, <<In("", {"s"})>>), Lit("\n")>>,
         <<Txt("\n")>>)

\* lines 192-193: the pattern of re.search and re.split, re.split(r'\s{3,}', line)
WideGap == <<Rep(3, Unbounded, <<In("", {"s"})>>)>>

\* lines 76-78: str.replace for the entries lo..hi of the dictionary, in
\* its order (evaluated by halves, the first half before the second)
RECURSIVE ApplyReplacements(_, _, _, _)
ApplyReplacements(text, table, lo, hi) ==
    IF lo > hi THEN text
    ELSE IF lo = hi THEN Replace(text, table[lo].old, table[lo].new)
    ELSE Only({ ApplyReplacements(half, table, (lo + hi) \div 2 + 1, hi) :
                  half \in {ApplyReplacements(text, table, lo, (lo + hi) \div 2)} })

\* lines 143-144 and 169-170: re.sub for the rules lo..hi of a list, in its
\* order (evaluated by halves, the first half before the second)
RECURSIVE ApplyRules(_, _, _, _)
ApplyRules(text, rules, lo, hi) ==
    IF lo > hi THEN text
    ELSE IF lo = hi THEN Sub(rules[lo].re, rules[lo].repl, text)
    ELSE Only({ ApplyRules(half, rules, (lo + hi) \div 2 + 1, hi) :
                  half \in {ApplyRules(text, rules, lo, (lo + hi) \div 2)} })

\* line 182: cleaned_text.split('\n')
RECURSIVE SplitLinesFrom(_, _, _)
SplitLinesFrom(s, from, p) ==
    IF p > Len(s) THEN <<SubSeq(s, from, Len(s))>>
    ELSE IF s[p] = "\n" THEN <<SubSeq(s, from, p - 1)>> \o SplitLinesFrom(s, p + 1, p + 1)
    ELSE SplitLinesFrom(s, from, p + 1)

SplitLines(s) == SplitLinesFrom(s, 1, 1)

\* lines 194-196: the parts of a line that are not blank, stripped
RECURSIVE StrippedParts(_)
StrippedParts(parts) ==
    IF parts = << >> THEN << >>
    ELSE (IF Strip(Head(parts)) # << >> THEN <<Strip(Head(parts))>> ELSE << >>)
         \o StrippedParts(Tail(parts))

\* lines 185-198: the structured lines
RECURSIVE StructuredLines(_)
StructuredLines(lines) ==
    IF lines = << >> THEN << >>
    ELSE (IF Strip(Head(lines)) = << >> THEN << >>
          ELSE IF Len(SplitRe(WideGap, Strip(Head(lines)))) > 1
               THEN StrippedParts(SplitRe(WideGap, Strip(Head(lines))))
               ELSE <<Strip(Head(lines))>>)
         \o StructuredLines(Tail(lines))

\* line 201: '\n'.join(structured_lines)
RECURSIVE JoinLines(_)
JoinLines(lines) ==
    IF lines = << >> THEN << >>
    ELSE IF Len(lines) = 1 THEN Head(lines)
    ELSE Head(lines) \o <<"\n">> \o JoinLines(Tail(lines))

\* lines 172-179: the repair of the numbers and of the white space
post_patterns == <<JoinDigits, JoinSeparator, OneSpace, NoEmptyLines>>

\* lines 76-170: the text after the replacements, the structure rules and
\* the item separation rules
Separated(text) ==
    Only({ Only({ ApplyRules(structured, item_separation_patterns, 1,
                             Len(item_separation_patterns)) :
                    structured \in {ApplyRules(replaced, structure_patterns, 1,
                                               Len(structure_patterns))} }) :
             replaced \in {ApplyReplacements(text, replacements, 1, Len(replacements))} })

\* lines 76-179: the text before the final pass over its lines
CleanedText(text) ==
    Only({ Strip(ApplyRules(separated, post_patterns, 1, Len(post_patterns))) :
             separated \in {Separated(text)} })

\* clean_text(text)
clean_text(text) ==
    Only({ JoinLines(StructuredLines(SplitLines(cleaned_text))) :
             cleaned_text \in {CleanedText(text)} })

\* ------------------------------------------------------------------------
\* extract_invoice_metadata (src/full.py 436-546)
\* ------------------------------------------------------------------------
\* lines 452-459
invoice_patterns ==
    <<
      \* line 453: r'FACTURE N°?\s*:?\s*(\d+)'
      <<Lit("FACTURE N"), Rep(0, 1, <<Lit("°")>>), Rep(0, Unbounded, <<In("", {"s"})>>),
        Rep(0, 1, <<Lit(":")>>), Rep(0, Unbounded, <<In("", {"s"})>>), Grp(1, <<<<Rep(1,
        Unbounded, <<In("", {"d"})>>)>>>>)>>,
      \* line 454: r'N°\s*:?\s*(\d+)'
      <<Lit("N°"), Rep(0, Unbounded, <<In("", {"s"})>>), Rep(0, 1, <<Lit(":")>>), Rep(0,
        Unbounded, <<In("", {"s"})>>), Grp(1, <<<<Rep(1, Unbounded, <<In("",
        {"d"})>>)>>>>)>>,
      \* line 455: r'(?:invoice|facture|n[°o]\.?\s*(?:invoice|facture)?)\s*[:\-]?\s*([A-Z0-9\-\/]+)'
      <<Grp(0, <<<<Lit("invoice")>>, <<Lit("facture")>>, <<Lit("n"), In("°o", {}), Rep(0,
        1, <<Lit(".")>>), Rep(0, Unbounded, <<In("", {"s"})>>), Rep(0, 1, <<Grp(0,
        <<<<Lit("invoice")>>, <<Lit("facture")>>>>)>>)>>>>), Rep(0, Unbounded, <<In("",
        {"s"})>>), Rep(0, 1, <<In(":-", {})>>), Rep(0, Unbounded, <<In("", {"s"})>>), Grp(1,
        <<<<Rep(1, Unbounded, <<In("-/", {"A-Z", "d"})>>)>>>>)>>,
      \* line 456: r'(?:inv|fact)\s*[:\-]?\s*([A-Z0-9\-\/]+)'
      <<Grp(0, <<<<Lit("inv")>>, <<Lit("fact")>>>>), Rep(0, Unbounded, <<In("", {"s"})>>),
        Rep(0, 1, <<In(":-", {})>>), Rep(0, Unbounded, <<In("", {"s"})>>), Grp(1, <<<<Rep(1,
        Unbounded, <<In("-/", {"A-Z", "d"})>>)>>>>)>>,
      \* line 457: r'([A-Z]{2,}\d{3,})'
      <<Grp(1, <<<<Rep(2, Unbounded, <<In("", {"A-Z"})>>), Rep(3, Unbounded, <<In("",
        {"d"})>>)>>>>)>>,
      \* line 458: r'(\d{3,})'
      <<Grp(1, <<<<Rep(3, Unbounded, <<In("", {"d"})>>)>>>>)>>
    >>

\* lines 466-471
date_patterns ==
    <<
      \* line 467: r'LE\s+(\d{1,2}[-\/]\d{1,2}[-\/]\d{2,4})'
      <<Lit("LE"), Rep(1, Unbounded, <<In("", {"s"})>>), Grp(1, <<<<Rep(1, 2, <<In("",
        {"d"})>>), In("-/", {}), Rep(1, 2, <<In("", {"d"})>>), In("-/", {}), Rep(2, 4,
        <<In("", {"d"})>>)>>>>)>>,
      \* line 468: r'(\d{1,2}[-\/]\d{1,2}[-\/]\d{2,4})'
      <<Grp(1, <<<<Rep(1, 2, <<In("", {"d"})>>), In("-/", {}), Rep(1, 2, <<In("",
        {"d"})>>), In("-/", {}), Rep(2, 4, <<In("", {"d"})>>)>>>>)>>,
      \* line 469: r'(\d{2,4}[-\/]\d{1,2}[-\/]\d{1,2})'
      <<Grp(1, <<<<Rep(2, 4, <<In("", {"d"})>>), In("-/", {}), Rep(1, 2, <<In("",
        {"d"})>>), In("-/", {}), Rep(1, 2, <<In("", {"d"})>>)>>>>)>>,
      \* line 470: r'(\d{1,2}\s+(?:janvier|février|mars|avril|mai|juin|juillet|août|septembre|octobre|novembre|décembre)\s+\d{2,4})'
      <<Grp(1, <<<<Rep(1, 2, <<In("", {"d"})>>), Rep(1, Unbounded, <<In("", {"s"})>>),
        Grp(0, <<<<Lit("janvier")>>, <<Lit("février")>>, <<Lit("mars")>>, <<Lit("avril")>>,
        <<Lit("mai")>>, <<Lit("juin")>>, <<Lit("juillet")>>, <<Lit("août")>>,
        <<Lit("septembre")>>, <<Lit("octobre")>>, <<Lit("novembre")>>,
        <<Lit("décembre")>>>>), Rep(1, Unbounded, <<In("", {"s"})>>), Rep(2, 4, <<In("",
        {"d"})>>)>>>>)>>
    >>

\* lines 478-482
weight_patterns ==
    <<
      \* line 479: r'Poids\s+Brut\s*:?\s*([\d,\.]+)\s*KGS?'
      <<Lit("Poids"), Rep(1, Unbounded, <<In("", {"s"})>>), Lit("Brut"), Rep(0, Unbounded,
        <<In("", {"s"})>>), Rep(0, 1, <<Lit(":")>>), Rep(0, Unbounded, <<In("", {"s"})>>),
        Grp(1, <<<<Rep(1, Unbounded, <<In(",.", {"d"})>>)>>>>), Rep(0, Unbounded, <<In("",
        {"s"})>>), Lit("KG"), Rep(0, 1, <<Lit("S")>>)>>,
      \* line 480: r'Poids\s+Net\s*:?\s*([\d,\.]+)\s*KGS?'
      <<Lit("Poids"), Rep(1, Unbounded, <<In("", {"s"})>>), Lit("Net"), Rep(0, Unbounded,
        <<In("", {"s"})>>), Rep(0, 1, <<Lit(":")>>), Rep(0, Unbounded, <<In("", {"s"})>>),
        Grp(1, <<<<Rep(1, Unbounded, <<In(",.", {"d"})>>)>>>>), Rep(0, Unbounded, <<In("",
        {"s"})>>), Lit("KG"), Rep(0, 1, <<Lit("S")>>)>>,
      \* line 481: r'([\d,\.]+)\s*KGS?'
      <<Grp(1, <<<<Rep(1, Unbounded, <<In(",.", {"d"})>>)>>>>), Rep(0, Unbounded, <<In("",
        {"s"})>>), Lit("KG"), Rep(0, 1, <<Lit("S")>>)>>
    >>

\* lines 489-515
total_patterns ==
    <<
      \* line 491: r'Montant\s*TTC\s*[:\s]*([0-9]{1,6}[,\.]\d{2})'
      <<Lit("Montant"), Rep(0, Unbounded, <<In("", {"s"})>>), Lit("TTC"), Rep(0,
        Unbounded, <<In("", {"s"})>>), Rep(0, Unbounded, <<In(":", {"s"})>>), Grp(1,
        <<<<Rep(1, 6, <<In("", {"d"})>>), In(",.", {}), Rep(2, 2, <<In("", {"d"})>>)>>>>)>>,
      \* line 492: r'TOTAL\s*TTC\s*[:\s]*([0-9]{1,6}[,\.]\d{2})'
      <<Lit("TOTAL"), Rep(0, Unbounded, <<In("", {"s"})>>), Lit("TTC"), Rep(0, Unbounded,
        <<In("", {"s"})>>), Rep(0, Unbounded, <<In(":", {"s"})>>), Grp(1, <<<<Rep(1, 6,
        <<In("", {"d"})>>), In(",.", {}), Rep(2, 2, <<In("", {"d"})>>)>>>>)>>,
      \* line 493: r'Montant\s*HT\s*[:\s]*([0-9]{1,6}[,\.]\d{2})'
      <<Lit("Montant"), Rep(0, Unbounded, <<In("", {"s"})>>), Lit("HT"), Rep(0, Unbounded,
        <<In("", {"s"})>>), Rep(0, Unbounded, <<In(":", {"s"})>>), Grp(1, <<<<Rep(1, 6,
        <<In("", {"d"})>>), In(",.", {}), Rep(2, 2, <<In("", {"d"})>>)>>>>)>>,
      \* line 494: r'TOTAL\s*HT\s*[:\s]*([0-9]{1,6}[,\.]\d{2})'
      <<Lit("TOTAL"), Rep(0, Unbounded, <<In("", {"s"})>>), Lit("HT"), Rep(0, Unbounded,
        <<In("", {"s"})>>), Rep(0, Unbounded, <<In(":", {"s"})>>), Grp(1, <<<<Rep(1, 6,
        <<In("", {"d"})>>), In(",.", {}), Rep(2, 2, <<In("", {"d"})>>)>>>>)>>,
      \* line 495: r'TOTAL\s*[:\s]+([0-9]{1,6}[,\.]\d{2})'
      <<Lit("TOTAL"), Rep(0, Unbounded, <<In("", {"s"})>>), Rep(1, Unbounded, <<In(":",
        {"s"})>>), Grp(1, <<<<Rep(1, 6, <<In("", {"d"})>>), In(",.", {}), Rep(2, 2, <<In("",
        {"d"})>>)>>>>)>>,
      \* line 496: r'Total\s*[:\s]+([0-9]{1,6}[,\.]\d{2})'
      <<Lit("Total"), Rep(0, Unbounded, <<In("", {"s"})>>), Rep(1, Unbounded, <<In(":",
        {"s"})>>), Grp(1, <<<<Rep(1, 6, <<In("", {"d"})>>), In(",.", {}), Rep(2, 2, <<In("",
        {"d"})>>)>>>>)>>,
      \* line 497: r'MONTANT\s*TOTAL\s*[:\s]*([0-9]{1,6}[,\.]\d{2})'
      <<Lit("MONTANT"), Rep(0, Unbounded, <<In("", {"s"})>>), Lit("TOTAL"), Rep(0,
        Unbounded, <<In("", {"s"})>>), Rep(0, Unbounded, <<In(":", {"s"})>>), Grp(1,
        <<<<Rep(1, 6, <<In("", {"d"})>>), In(",.", {}), Rep(2, 2, <<In("", {"d"})>>)>>>>)>>,
      \* line 498: r'Montant\s*Total\s*[:\s]*([0-9]{1,6}[,\.]\d{2})'
      <<Lit("Montant"), Rep(0, Unbounded, <<In("", {"s"})>>), Lit("Total"), Rep(0,
        Unbounded, <<In("", {"s"})>>), Rep(0, Unbounded, <<In(":", {"s"})>>), Grp(1,
        <<<<Rep(1, 6, <<In("", {"d"})>>), In(",.", {}), Rep(2, 2, <<In("", {"d"})>>)>>>>)>>,
      \* line 499: r'SOUS\s*TOTAL\s*[:\s]*([0-9]{1,6}[,\.]\d{2})'
      <<Lit("SOUS"), Rep(0, Unbounded, <<In("", {"s"})>>), Lit("TOTAL"), Rep(0, Unbounded,
        <<In("", {"s"})>>), Rep(0, Unbounded, <<In(":", {"s"})>>), Grp(1, <<<<Rep(1, 6,
        <<In("", {"d"})>>), In(",.", {}), Rep(2, 2, <<In("", {"d"})>>)>>>>)>>,
      \* line 500: r'NET\s*À\s*PAYER\s*[:\s]*([0-9]{1,6}[,\.]\d{2})'
      <<Lit("NET"), Rep(0, Unbounded, <<In("", {"s"})>>), Lit("À"), Rep(0, Unbounded,
        <<In("", {"s"})>>), Lit("PAYER"), Rep(0, Unbounded, <<In("", {"s"})>>), Rep(0,
        Unbounded, <<In(":", {"s"})>>), Grp(1, <<<<Rep(1, 6, <<In("", {"d"})>>), In(",.",
        {}), Rep(2, 2, <<In("", {"d"})>>)>>>>)>>,
      \* line 501: r'À\s*PAYER\s*[:\s]*([0-9]{1,6}[,\.]\d{2})'
      <<Lit("À"), Rep(0, Unbounded, <<In("", {"s"})>>), Lit("PAYER"), Rep(0, Unbounded,
        <<In("", {"s"})>>), Rep(0, Unbounded, <<In(":", {"s"})>>), Grp(1, <<<<Rep(1, 6,
        <<In("", {"d"})>>), In(",.", {}), Rep(2, 2, <<In("", {"d"})>>)>>>>)>>,
      \* line 502: r'Prix\s*total\s*[:\s]*([0-9]{1,6}[,\.]\d{2})'
      <<Lit("Prix"), Rep(0, Unbounded, <<In("", {"s"})>>), Lit("total"), Rep(0, Unbounded,
        <<In("", {"s"})>>), Rep(0, Unbounded, <<In(":", {"s"})>>), Grp(1, <<<<Rep(1, 6,
        <<In("", {"d"})>>), In(",.", {}), Rep(2, 2, <<In("", {"d"})>>)>>>>)>>,
      \* line 503: r'Valeur\s*totale\s*[:\s]*([0-9]{1,6}[,\.]\d{2})'
      <<Lit("Valeur"), Rep(0, Unbounded, <<In("", {"s"})>>), Lit("totale"), Rep(0,
        Unbounded, <<In("", {"s"})>>), Rep(0, Unbounded, <<In(":", {"s"})>>), Grp(1,
        <<<<Rep(1, 6, <<In("", {"d"})>>), In(",.", {}), Rep(2, 2, <<In("", {"d"})>>)>>>>)>>,
      \* line 504: r'Valeur\s*Totale\s*[:\s]*([0-9]{1,6}[,\.]\d{2})'
      <<Lit("Valeur"), Rep(0, Unbounded, <<In("", {"s"})>>), Lit("Totale"), Rep(0,
        Unbounded, <<In("", {"s"})>>), Rep(0, Unbounded, <<In(":", {"s"})>>), Grp(1,
        <<<<Rep(1, 6, <<In("", {"d"})>>), In(",.", {}), Rep(2, 2, <<In("", {"d"})>>)>>>>)>>,
      \* line 505: r'Valeur\s*devise\s*[:\s]*([0-9]{1,6}[,\.]\d{2})'
      <<Lit("Valeur"), Rep(0, Unbounded, <<In("", {"s"})>>), Lit("devise"), Rep(0,
        Unbounded, <<In("", {"s"})>>), Rep(0, Unbounded, <<In(":", {"s"})>>), Grp(1,
        <<<<Rep(1, 6, <<In("", {"d"})>>), In(",.", {}), Rep(2, 2, <<In("", {"d"})>>)>>>>)>>,
      \* line 507: r'([0-9]{3,6}[,\.]\d{2})\s*(?:DH|EUR|€|MAD|USD|\$)\s*$'
      <<Grp(1, <<<<Rep(3, 6, <<In("", {"d"})>>), In(",.", {}), Rep(2, 2, <<In("",
        {"d"})>>)>>>>), Rep(0, Unbounded, <<In("", {"s"})>>), Grp(0, <<<<Lit("DH")>>,
        <<Lit("EUR")>>, <<Lit("€")>>, <<Lit("MAD")>>, <<Lit("USD")>>, <<Lit("$")>>>>),
        Rep(0, Unbounded, <<In("", {"s"})>>), AtEnd>>,
      \* line 508: r'(?:DH|EUR|€|MAD|USD|\$)\s*([0-9]{3,6}[,\.]\d{2})\s*$'
      <<Grp(0, <<<<Lit("DH")>>, <<Lit("EUR")>>, <<Lit("€")>>, <<Lit("MAD")>>,
        <<Lit("USD")>>, <<Lit("$")>>>>), Rep(0, Unbounded, <<In("", {"s"})>>), Grp(1,
        <<<<Rep(3, 6, <<In("", {"d"})>>), In(",.", {}), Rep(2, 2, <<In("", {"d"})>>)>>>>),
        Rep(0, Unbounded, <<In("", {"s"})>>), AtEnd>>,
      \* line 509: r'([0-9]{3,6}[,\.]\d{2})\s*$'
      <<Grp(1, <<<<Rep(3, 6, <<In("", {"d"})>>), In(",.", {}), Rep(2, 2, <<In("",
        {"d"})>>)>>>>), Rep(0, Unbounded, <<In("", {"s"})>>), AtEnd>>,
      \* line 511: r'FACTURE\s*.*?([0-9]{3,6}[,\.]\d{2})'
      <<Lit("FACTURE"), Rep(0, Unbounded, <<In("", {"s"})>>), Lazy(0, Unbounded, <<In("",
        {"."})>>), Grp(1, <<<<Rep(3, 6, <<In("", {"d"})>>), In(",.", {}), Rep(2, 2, <<In("",
        {"d"})>>)>>>>)>>,
      \* line 512: r'([0-9]{3,6}[,\.]\d{2})\s*(?:EUR|€|DH|MAD|USD|\$)'
      <<Grp(1, <<<<Rep(3, 6, <<In("", {"d"})>>), In(",.", {}), Rep(2, 2, <<In("",
        {"d"})>>)>>>>), Rep(0, Unbounded, <<In("", {"s"})>>), Grp(0, <<<<Lit("EUR")>>,
        <<Lit("€")>>, <<Lit("DH")>>, <<Lit("MAD")>>, <<Lit("USD")>>, <<Lit("$")>>>>)>>,
      \* line 513: r'(?:EUR|€|DH|MAD|USD|\$)\s*([0-9]{3,6}[,\.]\d{2})'
      <<Grp(0, <<<<Lit("EUR")>>, <<Lit("€")>>, <<Lit("DH")>>, <<Lit("MAD")>>,
        <<Lit("USD")>>, <<Lit("$")>>>>), Rep(0, Unbounded, <<In("", {"s"})>>), Grp(1,
        <<<<Rep(3, 6, <<In("", {"d"})>>), In(",.", {}), Rep(2, 2, <<In("", {"d"})>>)>>>>)>>,
      \* line 514: r'([0-9]{3,6}[,\.]\d{2})'
      <<Grp(1, <<<<Rep(3, 6, <<In("", {"d"})>>), In(",.", {}), Rep(2, 2, <<In("",
        {"d"})>>)>>>>)>>
    >>

\* lines 528-535
currency_patterns ==
    <<
      \* line 529: r'(EUR|EURO|€)'
      <<Grp(1, <<<<Lit("EUR")>>, <<Lit("EURO")>>, <<Lit("€")>>>>)>>,
      \* line 530: r'(USD|DOLLAR|\$)'
      <<Grp(1, <<<<Lit("USD")>>, <<Lit("DOLLAR")>>, <<Lit("$")>>>>)>>,
      \* line 531: r'(DH|MAD|DIRHAM)'
      <<Grp(1, <<<<Lit("DH")>>, <<Lit("MAD")>>, <<Lit("DIRHAM")>>>>)>>,
      \* line 532: r'(GBP|£)'
      <<Grp(1, <<<<Lit("GBP")>>, <<Lit("£")>>>>)>>,
      \* line 533: r'DEVISE\s*:?\s*([A-Z]{3})'
      <<Lit("DEVISE"), Rep(0, Unbounded, <<In("", {"s"})>>), Rep(0, 1, <<Lit(":")>>),
        Rep(0, Unbounded, <<In("", {"s"})>>), Grp(1, <<<<Rep(3, 3, <<In("",
        {"A-Z"})>>)>>>>)>>,
      \* line 534: r'CURRENCY\s*:?\s*([A-Z]{3})'
      <<Lit("CURRENCY"), Rep(0, Unbounded, <<In("", {"s"})>>), Rep(0, 1, <<Lit(":")>>),
        Rep(0, Unbounded, <<In("", {"s"})>>), Grp(1, <<<<Rep(3, 3, <<In("",
        {"A-Z"})>>)>>>>)>>
    >>

\* line 448: the length of the preview of the text
PreviewLength == 500

\* the values of a list without the values that stand earlier in it
RECURSIVE FirstOccurrences(_)
FirstOccurrences(values) ==
    IF values = << >> THEN << >>
    ELSE Only({ IF \E i \in 1..Len(front) : front[i] = values[Len(values)]
                THEN front ELSE Append(front, values[Len(values)]) :
                  front \in {FirstOccurrences(SubSeq(values, 1, Len(values) - 1))} })

\* a collection of candidates that keeps one copy of each value
RECURSIVE CandidatesOnce(_, _, _)
CandidatesOnce(patterns, text, k) ==
    IF k > Len(patterns) THEN << >>
    ELSE FirstOccurrences(FindAll(patterns[k], text) \o CandidatesOnce(patterns, text, k + 1))

\* lines 461-463 and the loops like it: the matches of every pattern of a
\* list, appended in the order of the list
RECURSIVE Candidates(_, _, _)
Candidates(patterns, text, k) ==
    IF k > Len(patterns) THEN << >>
    ELSE FindAll(patterns[k], text) \o Candidates(patterns, text, k + 1)

\* extract_invoice_metadata(text)
extract_invoice_metadata(text) ==
    [k |-> "dict",
     potential_invoice_numbers |-> Candidates(invoice_patterns, text, 1),
     potential_dates |-> Candidates(date_patterns, text, 1),
     potential_weights |-> Candidates(weight_patterns, text, 1),
     potential_totals |-> Candidates(total_patterns, text, 1),
     potential_currencies |-> Candidates(currency_patterns, text, 1),
     text_preview |-> Take(text, PreviewLength)]

\* ------------------------------------------------------------------------
\* The hints of the extraction request (src/full.py 940-957)
\* ------------------------------------------------------------------------
\* lines 951 and 954: the number of weights and of totals that are shown
HintLimit == 2

\* ', '.join(values)
RECURSIVE JoinComma(_)
JoinComma(values) ==
    IF values = << >> THEN << >>
    ELSE IF Len(values) = 1 THEN Head(values)
    ELSE Head(values) \o Chars(", ") \o JoinComma(Tail(values))

\* one `if metadata.get(...)` with its `hints +=`: nothing for an empty list
Hint(label, values, shown) ==
    IF values = << >> THEN << >> ELSE Chars(label) \o JoinComma(Take(values, shown))

\* a hint block that lists every candidate of every field
HintsOfEveryCandidate(md) ==
    IF md.k # "dict" THEN << >>
    ELSE Hint("\nInvoice number found: ", md.potential_invoice_numbers,
              Len(md.potential_invoice_numbers))
         \o Hint("\nDate found: ", md.potential_dates, Len(md.potential_dates))
         \o Hint("\nWeights found: ", md.potential_weights, Len(md.potential_weights))
         \o Hint("\nTotals found: ", md.potential_totals, Len(md.potential_totals))
         \o Hint("\nCurrency found: ", md.potential_currencies,
                 Len(md.potential_currencies))

\* lines 941-957: the hint block built from the metadata
Hints(md) ==
    IF md.k # "dict" THEN << >>
    ELSE Hint("\nInvoice number found: ", md.potential_invoice_numbers, 1)
         \o Hint("\nDate found: ", md.potential_dates, 1)
         \o Hint("\nWeights found: ", md.potential_weights, HintLimit)
         \o Hint("\nTotals found: ", md.potential_totals, HintLimit)
         \o Hint("\nCurrency found: ", md.potential_currencies, 1)

\* ------------------------------------------------------------------------
\* line 2177: the metadata of the upload, of which reconciliation reads the
\* totals and the currencies
ExtractInvoiceMetadata(text) ==
    Only({ Metadata(md.potential_currencies, md.potential_totals) :
             md \in {extract_invoice_metadata(text)} })

\* a caller that keeps the record as reconciliation returned it
MetadataTotalSkipped(record, md) == record

\* the total taken from the candidates when reconciliation left it zero
MetadataTotal(record, md) ==
    IF EqZero(record.M_fe_valDev) /\ HasTotals(md) /\ BestTotal(md.potential_totals) > 0
    THEN [record EXCEPT !.M_fe_valDev = Num(BestTotal(md.potential_totals))]
    ELSE record

\* save_to_db: what is stored, and the exception that escapes
SaveOutcomes == {"stored", "no connection", "no connection, no file", "invoice fails", "item fails"}

SaveToDb(record, outcome) ==
    IF outcome = "stored" THEN [raised |-> FALSE, msg |-> << >>, persisted |-> "database"]
    ELSE IF outcome = "no connection" THEN [raised |-> FALSE, msg |-> << >>, persisted |-> "file"]
    ELSE IF outcome = "no connection, no file"
    THEN [raised |-> TRUE, msg |-> E_NO_SPACE, persisted |-> "nothing"]
    ELSE IF outcome = "invoice fails"
    THEN [raised |-> TRUE, msg |-> E_DB_INSERT, persisted |-> "nothing"]
    ELSE [raised |-> TRUE, msg |-> E_DB_INSERT, persisted |-> "invoice row"]

\* an item row can fail only when there is one
SaveOutcomesOf(record) ==
    IF ItemList(record.items) = << >> THEN SaveOutcomes \ {"item fails"} ELSE SaveOutcomes

\* ------------------------------------------------------------------------
\* State
\* ------------------------------------------------------------------------
VARIABLES
    draft,          \* the decoded reply handed to post_process_invoice_data
    metadata,       \* the candidates of extract_invoice_metadata
    data,           \* the record, as post_process_invoice_data leaves it
    pc,             \* "start" | "returned" | "raised"
    exc,            \* the exception that escaped, "" if none
    ngpReply,       \* the outcome of the reasoning service, NoReply if not called
    ngpRequest,     \* the call of find_ngp_codes_with_ai and what it returned
    headerFailed,   \* the header's try block caught an exception
    itemsFailed,    \* the items whose try block caught an exception
    c_ocr,          \* CustomOCR.c_ocr: the C library is loaded
    tesseract_available,    \* OCRFallback.tesseract_available
    ocrPc,          \* "idle" | "new" | "ready" | "failed" (the constructor raised)
    calls,          \* the extract_text calls made so far, each with its outcome
    request,        \* the upload: dossier, file name, content type, size, content
    lenient,        \* DEMJSON3_AVAILABLE
    upPc,           \* the position of upload_invoice
    document,       \* what the conversion and the engines do with the document
    extracted_text, \* the text handed to the reasoning service
    llama,          \* the calls of parse_invoice_with_llama, each with its outcome
    attempts,       \* the decoders tried on the reply
    persisted,      \* what save_to_db stored
    response,       \* the answer to the client
    cause,          \* the message of the exception that ended the upload
    runs,           \* the invocations of extract_text_with_custom_ocr, each with its position
    files,          \* the temporary images in the working directory
    seen,           \* what extract_text found in the file, per invocation and page
    disturbed,      \* the images overwritten or deleted by another invocation
    now,            \* int(time.time())
    ocr_text,       \* the text in hand, as recognised or as clean_text left it
    before_pass,    \* the text handed to the latest clean_text
    passes,         \* the number of clean_text passes over the text
    found,          \* what extract_invoice_metadata returned, NotExtracted before
    hints,          \* the hints of the extraction request
    textPc          \* "idle" | "text" | "mined" | "prompted"

reconcileVars ==
    <<draft, metadata, data, pc, exc, ngpReply, ngpRequest, headerFailed, itemsFailed>>

ocrVars == <<c_ocr, tesseract_available, ocrPc, calls>>

uploadVars ==
    <<request, lenient, upPc, document, extracted_text, llama, attempts, persisted,
      response, cause>>

pageVars == <<runs, files, seen, disturbed, now>>

textVars == <<ocr_text, before_pass, passes, found, hints, textPc>>

vars == <<reconcileVars, ocrVars, uploadVars, pageVars, textVars>>

\* the groups of variables a specification does not use stay as they are here
IdleReconcile ==
    /\ draft = Null /\ metadata = NoMetadata /\ data = Null
    /\ pc = "idle" /\ exc = ""
    /\ ngpReply = NoReply /\ ngpRequest = NoRequest
    /\ headerFailed = FALSE /\ itemsFailed = {}

IdleOcr ==
    /\ c_ocr = FALSE /\ tesseract_available = FALSE
    /\ ocrPc = "idle" /\ calls = << >>

NoDocument == [conversion |-> << >>, pages |-> << >>]

NoResponse == [status |-> 0, kind |-> "none", inner |-> HttpError(0, "none", << >>)]

NoUpload == [dossier |-> "none", filename |-> "none", content_type |-> "none",
             size |-> "none", content |-> "empty"]

IdleUpload ==
    /\ request = NoUpload /\ lenient = FALSE /\ upPc = "idle"
    /\ document = NoDocument /\ extracted_text = << >>
    /\ llama = << >> /\ attempts = << >>
    /\ persisted = "nothing" /\ response = NoResponse /\ cause = << >>

\* no text in hand
NotExtracted == [k |-> "none"]

IdleText ==
    /\ ocr_text = << >> /\ before_pass = << >> /\ passes = 0
    /\ found = NotExtracted /\ hints = << >> /\ textPc = "idle"

IdlePages ==
    /\ runs = << >> /\ files = {} /\ seen = << >>
    /\ disturbed = {} /\ now = 0

\* ------------------------------------------------------------------------
\* Reconciliation of one draft
\* ------------------------------------------------------------------------
InitReconcile ==
    /\ IdlePages
    /\ IdleText
    /\ \E in \in Inputs : draft = in.draft /\ metadata = in.metadata
    /\ data = draft
    /\ pc = "start"
    /\ exc = ""
    /\ ngpReply = NoReply
    /\ ngpRequest = NoRequest
    /\ headerFailed = FALSE
    /\ itemsFailed = {}
    /\ IdleOcr
    /\ IdleUpload

\* post_process_invoice_data(draft, metadata), with the reasoning service
\* answering reply when it is called
PostProcess ==
    /\ UNCHANGED <<pageVars, textVars>>
    /\ pc = "start"
    /\ \E n \in {RequestSize(draft, metadata)} :
       \E reply \in IF n = 0 THEN {NoReply} ELSE Replies(n) :
       \E out \in {PostProcessInvoiceData(draft, metadata, reply)} :
          /\ data' = out.data
          /\ exc' = out.exc
          /\ pc' = IF out.exc = "" THEN "returned" ELSE "raised"
          /\ ngpReply' = reply
          /\ ngpRequest' = out.request
          /\ headerFailed' = out.headerFailed
          /\ itemsFailed' = out.itemsFailed
    /\ UNCHANGED <<draft, metadata, ocrVars, uploadVars>>

\* lines 2254-2273 of upload_invoice: the caller's own look at the candidates
\* when the record post_process_invoice_data returned has a total of zero
TotalFallback ==
    /\ UNCHANGED <<pageVars, textVars>>
    /\ pc = "returned"
    /\ data' = MetadataTotal(data, metadata)
    /\ pc' = "final"
    /\ UNCHANGED <<draft, metadata, exc, ngpReply, ngpRequest, headerFailed, itemsFailed,
                   ocrVars, uploadVars>>

NextReconcile == PostProcess \/ TotalFallback

SpecReconcile == InitReconcile /\ [][NextReconcile]_vars

\* ------------------------------------------------------------------------
\* Properties of reconciliation (checked under SpecReconcile)
\* ------------------------------------------------------------------------
Returned == pc = "returned"

FinalItems == data.items.v

DraftItems == ItemList(draft.items)

Placeholders == {T_CODE_REQUIS, T_NA, T_NULL, T_NONE}

\* C1: after post_process_invoice_data returns, every item has a
\* classification code that is a non-empty text and is none of the
\* placeholders CODE REQUIS, N/A, NULL, NONE, whatever the draft's code and
\* description were and whatever the reasoning service answered.
C1_NoEmptyOrPlaceholderCode ==
    Returned =>
        \A i \in 1..Len(FinalItems) :
            /\ FinalItems[i].M_fl_Ngp.k = "str"
            /\ Strip(FinalItems[i].M_fl_Ngp.s) # << >>
            /\ Upper(Strip(FinalItems[i].M_fl_Ngp.s)) \notin Placeholders

\* the draft's items all have value zero: absent, null or the number 0
AllDraftValuesZero ==
    \A i \in 1..Len(DraftItems) :
        DraftItems[i].isDict /\ ~Truthy(DraftItems[i].M_fl_valDev)
                             /\ DraftItems[i].M_fl_valDev.k # "str"

\* C2: when the header total after coercion is positive and every one of
\* the n >= 1 items of the draft has value zero, every item ends with the
\* value total / n (no item's coercion having failed).
C2_EqualShareForEveryItem ==
    (/\ Returned
     /\ Len(DraftItems) >= 1
     /\ AllDraftValuesZero
     /\ itemsFailed = {}
     /\ data.M_fe_valDev.k = "num" /\ data.M_fe_valDev.n > 0)
    => \A i \in 1..Len(FinalItems) :
           /\ FinalItems[i].M_fl_valDev.k = "num"
           /\ FinalItems[i].M_fl_valDev.n * Len(FinalItems) = data.M_fe_valDev.n

\* the draft value is absent, null, a number or a text
PlainValue(v) == v.k \in {"absent", "null", "num", "str"}

NonNegativeNumber(v) == v.k = "num" /\ v.n >= 0

\* C3: after post_process_invoice_data returns, M_fe_Pnet, M_fe_Pbrute and
\* M_fe_valDev are numbers >= 0, for every draft value that is absent, null,
\* a number (negative ones included) or a text.
C3_HeaderNumbersNonNegative ==
    (/\ Returned
     /\ PlainValue(draft.M_fe_Pnet) /\ PlainValue(draft.M_fe_Pbrute)
     /\ PlainValue(draft.M_fe_valDev))
    => /\ NonNegativeNumber(data.M_fe_Pnet)
       /\ NonNegativeNumber(data.M_fe_Pbrute)
       /\ NonNegativeNumber(data.M_fe_valDev)

\* C4: post_process_invoice_data never raises, whatever the types of the
\* draft and of its fields.
C4_NeverRaises == pc # "raised"

\* the numbers of the header and of an item after a reset of their group
HeaderReset ==
    data.M_fe_Pnet = Num(0) /\ data.M_fe_Pbrute = Num(0) /\ data.M_fe_valDev = Num(0)

ItemReset(item) ==
    /\ item.M_fl_PBrut = Num(0) /\ item.M_fl_valDev = Num(0)
    /\ item.M_fl_PNet = Num(0) /\ item.quantity = Num(1 * Scale)

\* C5: a failing coercion of a numeric field never aborts reconciliation: no
\* exception of float() or int() escapes; a failure in the header resets the
\* three header numbers only, a failure in an item resets the four numbers
\* of that item only, and the header texts are those of the draft.
C5_CoercionFailureContained ==
    /\ exc # "OverflowError"
    /\ Returned =>
          /\ headerFailed => HeaderReset
          /\ \A i \in itemsFailed : ItemReset(FinalItems[i])
          /\ data.M_fe_date = NoneToEmpty(draft.M_fe_date)

CanonicalCodes == {T_EUR, T_USD, T_MAD, T_GBP}

\* C6: after reconciliation the header currency is a canonical 3-letter
\* code: a draft currency or a first known candidate spelled as the euro sign,
\* EURO or EUR gives EUR, and no currency at all gives MAD.
C6_CanonicalCurrency ==
    Returned =>
        /\ data.M_fe_devise.k = "str" /\ data.M_fe_devise.s \in CanonicalCodes
        /\ draft.M_fe_devise \in {Str(T_EUROSIGN), Str(T_EURO), Str(T_EUR)}
              => data.M_fe_devise = Str(T_EUR)

\* ------------------------------------------------------------------------
\* The recognition object: construction, then calls of extract_text
\* ------------------------------------------------------------------------
InitOcr ==
    /\ IdlePages
    /\ IdleText
    /\ IdleReconcile
    /\ IdleUpload
    /\ c_ocr = FALSE /\ tesseract_available = FALSE
    /\ ocrPc = "new" /\ calls = << >>

\* CustomOCR.__init__: OCRFallback() probes tesseract, then the C library is
\* loaded; a failure to load it is caught
Construct ==
    /\ UNCHANGED <<pageVars, textVars>>
    /\ ocrPc = "new"
    /\ \E check \in CheckOutcomes, load \in {"loaded", "os error"} :
       \E probe \in {CheckTesseract(check)} :
          IF probe.exc # ""
          THEN /\ ocrPc' = "failed"
               /\ UNCHANGED <<c_ocr, tesseract_available>>
          ELSE /\ ocrPc' = "ready"
               /\ tesseract_available' = probe.v
               /\ c_ocr' = (load = "loaded")
    /\ UNCHANGED <<calls, reconcileVars, uploadVars>>

\* one call of CustomOCR.extract_text
ExtractTextCall ==
    /\ UNCHANGED <<pageVars, textVars>>
    /\ ocrPc = "ready"
    /\ Len(calls) < MaxCalls
    /\ \E call \in CallsOf(c_ocr, tesseract_available) :
          calls' = Append(calls, [call |-> call,
                                  done |-> ExtractText(c_ocr, tesseract_available, call)])
    /\ UNCHANGED <<c_ocr, tesseract_available, ocrPc, reconcileVars, uploadVars>>

NextOcr == Construct \/ ExtractTextCall

SpecOcr == InitOcr /\ [][NextOcr]_vars

\* ------------------------------------------------------------------------
\* Properties of text recognition (checked under SpecOcr)
\* ------------------------------------------------------------------------
\* the C library gave no result for the call: it is not loaded, or its run
\* returned a null pointer or raised
PrimaryFailed(c) == c.call.primary.kind \in {"not run", "null", "raises"}

\* C7: in every call of extract_text on a page file, when the C library is
\* not loaded or gives no result and tesseract is available, tesseract is
\* tried for that page; an empty result comes only after every available
\* tier was tried.
C7_SecondaryTriedAfterPrimaryFails ==
    \A i \in 1..Len(calls) :
        (/\ calls[i].call.file_path
         /\ PrimaryFailed(calls[i])
         /\ tesseract_available)
        => \E j \in 1..Len(calls[i].done.tiers) : calls[i].done.tiers[j] = "secondary"

\* C8: no call of extract_text propagates an exception, and a call in which
\* no tier produced a text returns the empty text with confidence 0.
C8_NeverPropagates ==
    \A i \in 1..Len(calls) :
        /\ calls[i].done.exc = ""
        /\ (PrimaryFailed(calls[i]) /\ calls[i].call.secondary.kind # "text")
           => calls[i].done.result = EmptyPair

\* ------------------------------------------------------------------------
\* One upload: upload_invoice, from the request to the answer
\* ------------------------------------------------------------------------
Upload(dossier, filename, content_type, size, content) ==
    [dossier |-> dossier, filename |-> filename, content_type |-> content_type,
     size |-> size, content |-> content]

\* uploads that pass every check, and one upload for each check that fails
ValidUploads ==
    {Upload("D1", f, t, z, "bytes") :
        f \in {"pdf", "png"}, t \in {"none", "allowed"}, z \in {"none", "fits"}}

InvalidUploads ==
    {Upload("blank", "pdf", "allowed", "fits", "bytes"),
     Upload("D1", "none", "allowed", "fits", "bytes"),
     Upload("D1", "blob", "allowed", "fits", "bytes"),
     Upload("D1", "pdf", "allowed", "too large", "bytes"),
     Upload("D1", "pdf", "allowed", "zero", "bytes"),
     Upload("D1", "pdf", "not allowed", "fits", "bytes"),
     Upload("D1", "txt", "none", "fits", "bytes"),
     Upload("D1", "pdf", "allowed", "none", "empty")}

\* the checks made before the file is read: the error, "" if none
ValidateUpload(r) ==
    IF r.dossier = "blank" THEN "dossier required"
    ELSE IF r.filename = "none" THEN "no filename"
    ELSE IF r.filename = "blob" THEN "invalid upload"
    ELSE IF r.size = "too large" THEN "file too large"
    ELSE IF r.size = "zero" THEN "empty file"
    ELSE IF r.content_type = "not allowed" THEN "invalid file type"
    ELSE IF r.content_type = "none" /\ r.filename \notin {"pdf", "png"}
    THEN "invalid extension"
    ELSE ""

\* what the engines do with one page: the temporary file cannot be written,
\* or extract_text is called on it
PagesOf(loaded, available) ==
    {[write |-> "fails", call |-> Call(TRUE, FALSE, NotRun, NotRun, "not run")]}
    \cup {[write |-> "ok", call |-> c] :
            c \in {x \in CallsOf(loaded, available) : x.file_path /\ ~x.image_data}}

\* what happens to the document: a PDF is converted to its pages or the
\* conversion fails, an image is its only page
DocumentsOf(filename, loaded, available) ==
    IF filename = "pdf"
    THEN {[conversion |-> m, pages |-> << >>] : m \in {E_POPPLER, E_PAGE_COUNT}}
         \cup {[conversion |-> << >>, pages |-> ps] :
                 ps \in SeqsUpTo(PagesOf(loaded, available), MaxPages)}
    ELSE {[conversion |-> << >>, pages |-> <<pg>>] : pg \in PagesOf(loaded, available)}

\* the calls of extract_text made for the document, in order
CallsMade(loaded, available, doc) ==
    [i \in 1..(IF doc.conversion # << >> THEN 0
               ELSE PageLoop(loaded, available, doc.pages, 1, << >>).processed) |->
        [call |-> doc.pages[i].call,
         done |-> IF doc.pages[i].write = "fails" THEN Done("", EmptyPair, << >>)
                  ELSE ExtractText(loaded, available, doc.pages[i].call)]]

InitUpload ==
    /\ IdlePages
    /\ IdleText
    /\ IdleReconcile
    /\ c_ocr \in BOOLEAN /\ tesseract_available \in BOOLEAN
    /\ ocrPc = "ready" /\ calls = << >>
    /\ request \in ValidUploads \cup InvalidUploads
    /\ lenient \in BOOLEAN
    /\ upPc = "received"
    /\ document = NoDocument /\ extracted_text = << >>
    /\ llama = << >> /\ attempts = << >>
    /\ persisted = "nothing" /\ response = NoResponse /\ cause = << >>

\* the upload ends with an error
Abort(answer, msg) ==
    /\ upPc' = "aborted"
    /\ response' = answer
    /\ cause' = msg

\* lines 2089-2131: the checks and the reading of the file
Receive ==
    /\ UNCHANGED <<pageVars, textVars>>
    /\ upPc = "received"
    /\ IF ValidateUpload(request) # ""
       THEN Abort(Direct(HttpError(400, ValidateUpload(request), << >>)), << >>)
       ELSE IF request.content = "empty"
       THEN Abort(Unexpected(HttpError(400, "empty content", << >>)), << >>)
       ELSE upPc' = "extracting" /\ UNCHANGED <<response, cause>>
    /\ UNCHANGED <<request, lenient, document, extracted_text, llama, attempts, persisted,
                   reconcileVars, ocrVars>>

\* lines 2133-2174: the text of the document
ExtractStage ==
    /\ UNCHANGED <<pageVars, textVars>>
    /\ upPc = "extracting"
    /\ \E doc \in DocumentsOf(request.filename, c_ocr, tesseract_available) :
       \E r \in {IF request.filename = "pdf"
                 THEN ExtractPdf(c_ocr, tesseract_available, doc.conversion, doc.pages)
                 ELSE ExtractImage(c_ocr, tesseract_available, doc.pages[1])} :
          /\ document' = doc
          /\ calls' = calls \o CallsMade(c_ocr, tesseract_available, doc)
          /\ IF r.raised
             THEN Abort(Unexpected(OcrError(r.msg)), r.msg) /\ UNCHANGED extracted_text
             ELSE IF NoTextExtracted(r.text)
             THEN /\ Abort(Unexpected(HttpError(400, "no text extracted", << >>)), << >>)
                  /\ UNCHANGED extracted_text
             ELSE /\ extracted_text' = r.text
                  /\ upPc' = "parsing"
                  /\ UNCHANGED <<response, cause>>
    /\ UNCHANGED <<request, lenient, llama, attempts, persisted, reconcileVars,
                   c_ocr, tesseract_available, ocrPc>>

\* the service's outcomes: the request fails, or a reply arrives
ReplyTexts ==
    UNION {{p,
            T_FENCE \o T_JSON \o <<"\n">> \o p \o <<"\n">> \o T_FENCE,
            <<Backquote>> \o p \o <<Backquote>>,
            T_FENCE \o T_JSON \o <<" ">> \o p \o <<Backquote>>} :
           p \in {P_OBJECT, P_ARRAY, P_ITEM, P_NO_COLON, P_BARE_KEY, P_PROSE}}
    \cup {<< >>, <<" ">>}

LlamaOutcomes ==
    {LlamaOutcome("timeout", << >>), LlamaOutcome("connection", << >>),
     LlamaOutcome("status", E_STATUS_500), LlamaOutcome("status", E_STATUS_401)}
    \cup {LlamaOutcome("ok", t) : t \in ReplyTexts}

\* lines 2177-2248: the candidates, the request to the service, the decoding
ParseStage ==
    /\ UNCHANGED <<pageVars, textVars>>
    /\ upPc = "parsing"
    /\ metadata' = ExtractInvoiceMetadata(extracted_text)
    /\ \E outcome \in LlamaOutcomes :
       \E r \in {ParseInvoiceWithLlama(outcome)} :
          /\ llama' = Append(llama, outcome)
          /\ IF r.raised
             THEN Abort(Unexpected(LlamaError(r.msg)), r.msg) /\ UNCHANGED <<attempts, draft>>
             ELSE \E dec \in {DecodeReply(AssistantReply(r.text), lenient)} :
                    /\ attempts' = dec.attempts
                    /\ IF dec.ok
                       THEN /\ draft' = dec.draft
                            /\ upPc' = "reconciling"
                            /\ UNCHANGED <<response, cause>>
                       ELSE /\ Abort(Unexpected(LlamaError(dec.msg)), dec.msg)
                            /\ UNCHANGED draft
    /\ UNCHANGED <<request, lenient, document, extracted_text, persisted, ocrVars,
                   data, pc, exc, ngpReply, ngpRequest, headerFailed, itemsFailed>>

\* the message of an exception of post_process_invoice_data: the drafts of
\* an upload raise on an array only, which has no get
ExcMessage(e) == IF e = "AttributeError" THEN E_LIST_GET ELSE <<e>>

\* lines 2251-2273: reconciliation, then the total of the candidates
ReconcileStage ==
    /\ UNCHANGED <<pageVars, textVars>>
    /\ upPc = "reconciling"
    /\ \E n \in {RequestSize(draft, metadata)} :
       \E reply \in IF n = 0 THEN {NoReply} ELSE Replies(n) :
       \E out \in {PostProcessInvoiceData(draft, metadata, reply)} :
          /\ exc' = out.exc
          /\ pc' = IF out.exc = "" THEN "returned" ELSE "raised"
          /\ ngpReply' = reply
          /\ ngpRequest' = out.request
          /\ headerFailed' = out.headerFailed
          /\ itemsFailed' = out.itemsFailed
          /\ IF out.exc # ""
             THEN /\ Abort(Unexpected(LlamaError(ExcMessage(out.exc))), ExcMessage(out.exc))
                  /\ data' = out.data
             ELSE /\ data' = MetadataTotal(out.data, metadata)
                  /\ upPc' = "saving"
                  /\ UNCHANGED <<response, cause>>
    /\ UNCHANGED <<draft, metadata, request, lenient, document, extracted_text, llama,
                   attempts, persisted, ocrVars>>

\* line 2277: save_to_db
SaveStage ==
    /\ UNCHANGED <<pageVars, textVars>>
    /\ upPc = "saving"
    /\ \E outcome \in SaveOutcomesOf(data) :
       \E r \in {SaveToDb(data, outcome)} :
          /\ persisted' = r.persisted
          /\ IF r.raised
             THEN Abort(Unexpected(LlamaError(r.msg)), r.msg)
             ELSE upPc' = "saved" /\ UNCHANGED <<response, cause>>
    /\ UNCHANGED <<request, lenient, document, extracted_text, llama, attempts,
                   reconcileVars, ocrVars>>

\* lines 2290-2856: the page with the record
Respond ==
    /\ UNCHANGED <<pageVars, textVars>>
    /\ upPc = "saved"
    /\ upPc' = "responded"
    /\ response' = [status |-> 200, kind |-> "record", inner |-> HttpError(200, "record", << >>)]
    /\ UNCHANGED <<request, lenient, document, extracted_text, llama, attempts, persisted,
                   cause, reconcileVars, ocrVars>>

NextUpload ==
    Receive \/ ExtractStage \/ ParseStage \/ ReconcileStage \/ SaveStage \/ Respond

SpecUpload == InitUpload /\ [][NextUpload]_vars

\* ------------------------------------------------------------------------
\* Properties of an upload (checked under SpecUpload)
\* ------------------------------------------------------------------------
\* the document has a page, and no page gives a text: each page is written
\* and the engines return nothing but white space for it
EnginesYieldNoText ==
    /\ upPc \notin {"received", "extracting"}
    /\ document.conversion = << >>
    /\ Len(document.pages) >= 1
    /\ \A i \in 1..Len(document.pages) :
          /\ document.pages[i].write = "ok"
          /\ Strip(ExtractText(c_ocr, tesseract_available,
                               document.pages[i].call).result.text) = << >>

NoReadableText == {"no readable text", "no text extracted"}

\* C9: when the engines yield no text for any page of the document, the
\* upload ends with the 'no readable text' client error (status 400), the
\* reasoning service is never called and nothing is persisted.
C9_NoTextIsClientError ==
    EnginesYieldNoText =>
        /\ upPc = "aborted"
        /\ response.status = 400 /\ response.kind \in NoReadableText
        /\ llama = << >> /\ ~ngpRequest.called
        /\ persisted = "nothing"

\* the reply arrived and no decoder of the cascade accepts it
AllDecodersFail(text, withLenient) ==
    LET reply == AssistantReply(text)
        json_string == IF FencedBlock(reply).found THEN FencedBlock(reply).text
                       ELSE Strip(reply)
    IN  /\ Strip(reply) # << >>
        /\ ~JsonLoads(json_string).ok
        /\ ~JsonLoads(CleanedJson(json_string)).ok
        /\ withLenient => ~DemjsonDecode(CleanedJson(json_string)).ok

DecodingFailed ==
    /\ Len(llama) >= 1
    /\ llama[1].kind = "ok"
    /\ AllDecodersFail(llama[1].text, lenient)

\* C10: when every decoder fails on the reply, the upload ends with the
\* malformed-response exception as its error: the service was called once
\* and is not called again, post_process_invoice_data is not run and nothing
\* is persisted.
C10_MalformedReplyEndsUpload ==
    DecodingFailed =>
        /\ upPc = "aborted"
        /\ response.status = 500
        /\ StartsWith(cause, P_FAILED_JSON)
        /\ Len(llama) = 1 /\ ~ngpRequest.called
        /\ pc = "idle" /\ data = Null
        /\ persisted = "nothing"

\* the three decoders were tried on a reply and the upload ended
C10_Witness ==
    /\ DecodingFailed
    /\ attempts = <<"strict", "cleaned", "lenient">>
    /\ upPc = "aborted"

\* the class of the error the upload answered with, and its detail
ReportedAs == response.inner.kind

ReportedDetail == response.inner.msg

\* C11: an aborted upload reports the cause that occurred.  A timeout, a
\* connection failure and a status other than 200 of the reasoning service
\* are reported with their own message (a status 401 possibly as an
\* authentication failure), a reply no decoder accepts is reported as the
\* malformed reply it is and never as an authentication or quota failure,
\* and a document without text is reported as having no readable text.
C11_ReportNamesActualCause ==
    /\ (upPc = "aborted" /\ Len(llama) = 1) =>
          /\ llama[1].kind = "timeout" =>
                ReportedAs = "failed to parse invoice" /\ ReportedDetail = E_TIMEOUT
          /\ llama[1].kind = "connection" =>
                ReportedAs = "failed to parse invoice" /\ ReportedDetail = E_CONNECT
          /\ llama[1].kind = "status" =>
                \/ /\ ReportedAs = "failed to parse invoice"
                   /\ ReportedDetail = P_UNEXPECTED \o llama[1].text
                \/ /\ ReportedAs = "llama authentication failed"
                   /\ Contains(llama[1].text, N_401)
          /\ DecodingFailed =>
                /\ ReportedAs = "failed to parse invoice"
                /\ StartsWith(ReportedDetail, P_FAILED_JSON)
    /\ (upPc = "aborted" /\ EnginesYieldNoText) => ReportedAs \in NoReadableText

\* ------------------------------------------------------------------------
\* Properties of the classification resolver (checked under SpecReconcile)
\* ------------------------------------------------------------------------
\* the request to the reasoning service failed, or its reply is no JSON
ServiceFailed == ngpReply.kind \in {"timeout", "connection", "status", "undecodable"}

DefaultSources == {"error_fallback", "api_fallback", "fallback_default", "default_fallback"}

\* C12: when the reasoning service times out, cannot be reached, answers
\* with a status other than 200 or with a reply that is no JSON,
\* find_ngp_codes_with_ai returns one classification for each description
\* requested, each with the default code 94039000, low confidence and a
\* default source tag; reconciliation goes on and each item that needed a
\* code ends with the default code.
C12_DefaultsOnServiceFailure ==
    (ngpRequest.called /\ ServiceFailed) =>
        /\ Len(ngpRequest.classifications) = Len(ngpRequest.needing)
        /\ \A j \in 1..Len(ngpRequest.classifications) :
              /\ ngpRequest.classifications[j].ngp_code = Str(T_DEFAULT_NGP)
              /\ ngpRequest.classifications[j].confidence = "low"
              /\ ngpRequest.classifications[j].source \in DefaultSources
        /\ pc \in {"returned", "final", "raised"}
        /\ exc \in {"", "OverflowError"}
        /\ Returned =>
              \A j \in 1..Len(ngpRequest.needing) :
                  FinalItems[ngpRequest.needing[j]].M_fl_Ngp = Str(T_DEFAULT_NGP)

\* the service failed on a request for two descriptions and reconciliation
\* returned
C12_Witness ==
    /\ ngpRequest.called /\ ServiceFailed
    /\ Len(ngpRequest.needing) = 2
    /\ Returned

\* eight characters, each a digit
EightDigits(s) == Len(s) = 8 /\ \A i \in 1..Len(s) : IsDigit(s[i])

\* C13: after post_process_invoice_data returns, the classification code of
\* every item is a text of exactly eight digits, whatever code the draft
\* carried and whatever code the reasoning service returned.
C13_EveryCodeIsEightDigits ==
    Returned =>
        \A i \in 1..Len(FinalItems) :
            /\ FinalItems[i].M_fl_Ngp.k = "str"
            /\ EightDigits(FinalItems[i].M_fl_Ngp.s)

\* ------------------------------------------------------------------------
\* Properties of value distribution (checked under SpecReconcile)
\* ------------------------------------------------------------------------
\* the value of the draft's item i after the defaults and the coercion
ParsedValue(i) == CoerceItemValue(ItemDefaults(DraftItems[i]).M_fl_valDev)

AllItemsAreObjects == \A i \in 1..Len(DraftItems) : DraftItems[i].isDict

SomeParsedValueNonZero ==
    \E i \in 1..Len(DraftItems) :
        ParsedValue(i).exc = "" /\ ~EqZero(ParsedValue(i).v)

\* C14: when at least one item of the draft carries a value that is not
\* zero, no value is distributed: after reconciliation the value of every
\* item whose coercion did not fail is its coerced parsed value.
C14_NoRedistribution ==
    (Returned /\ AllItemsAreObjects /\ SomeParsedValueNonZero) =>
        \A i \in 1..Len(FinalItems) :
            i \notin itemsFailed => FinalItems[i].M_fl_valDev = ParsedValue(i).v

\* ------------------------------------------------------------------------
\* Properties of the item defaults (checked under SpecReconcile)
\* ------------------------------------------------------------------------
\* the draft has no value for the field: the key is absent, or null
Missing(v) == v.k \in {"absent", "null"}

ItemFieldNames ==
    {"AvecSansPaiment", "M_fl_Ngp", "M_fl_art", "M_fl_desig", "M_fl_orig", "quantity",
     "M_fl_unite", "M_fl_PNet", "M_fl_PBrut", "M_fl_valDev"}

\* C19: after reconciliation no field of an item is null or absent; an item
\* whose origin, unit or quantity was absent or null in the draft has origin
\* MAROC, unit PCS and quantity 1, its absent or null weights are zero, and
\* so is its absent or null value when there is no header total to share.
C19_ItemDefaults ==
    (Returned /\ AllItemsAreObjects) =>
        \A i \in 1..Len(FinalItems) :
            /\ \A f \in ItemFieldNames : ~Missing(FinalItems[i][f])
            /\ Missing(DraftItems[i].M_fl_orig) => FinalItems[i].M_fl_orig = Str(T_MAROC)
            /\ Missing(DraftItems[i].M_fl_unite) => FinalItems[i].M_fl_unite = Str(T_PCS)
            /\ Missing(DraftItems[i].quantity) => FinalItems[i].quantity = Num(1 * Scale)
            /\ Missing(DraftItems[i].M_fl_PNet) => FinalItems[i].M_fl_PNet = Num(0)
            /\ Missing(DraftItems[i].M_fl_PBrut) => FinalItems[i].M_fl_PBrut = Num(0)
            /\ (Missing(DraftItems[i].M_fl_valDev) /\ EqZero(data.M_fe_valDev))
                   => FinalItems[i].M_fl_valDev = Num(0)

\* ------------------------------------------------------------------------
\* Properties of the page loop (checked under SpecUpload)
\* ------------------------------------------------------------------------
\* the upload was a PDF, its conversion gave pages and every temporary page
\* image could be written
PdfPagesProcessed ==
    /\ request.filename = "pdf"
    /\ upPc \notin {"received", "extracting"}
    /\ document.conversion = << >>
    /\ Len(document.pages) >= 1
    /\ \A i \in 1..Len(document.pages) : document.pages[i].write = "ok"

\* the text the engines give for page i
EngineText(i) ==
    ExtractText(c_ocr, tesseract_available, document.pages[i].call).result.text

\* the texts of the pages from i on that are not blank, in page order
RECURSIVE NonBlankFrom(_)
NonBlankFrom(i) ==
    IF i > Len(document.pages) THEN << >>
    ELSE IF Strip(EngineText(i)) # << >> THEN <<EngineText(i)>> \o NonBlankFrom(i + 1)
    ELSE NonBlankFrom(i + 1)

\* C15: for a PDF, extract_text is called once for every page, in page
\* order; a page without text does not end the loop; and the text the
\* function combines is the texts of the pages that are not blank, in page
\* order, joined by the page-break marker.
C15_EveryPageOnceInOrder ==
    PdfPagesProcessed =>
        /\ Len(calls) = Len(document.pages)
        /\ \A i \in 1..Len(calls) : calls[i].call = document.pages[i].call
        /\ \E r \in {ExtractPdf(c_ocr, tesseract_available, document.conversion,
                                document.pages)} :
              /\ ~r.raised
              /\ NonBlankFrom(1) # << >> => r.text = JoinPages(NonBlankFrom(1))

\* ------------------------------------------------------------------------
\* The temporary images of extract_text_with_custom_ocr (src/full.py:206-291)
\*
\* Invocations of the function run side by side in one working directory.
\* Each writes the image of a page to a file, has extract_text read it and
\* removes it.  A file is [name, owner, page, complete]: the invocation whose
\* bytes it holds, the page, and whether the write finished.
\* ------------------------------------------------------------------------
Invocations == 1..2

MaxClock == 1

NoName == [kind |-> "none", n |-> 0, ext |-> "none"]

Run(kind, pages) ==
    [kind |-> kind, pages |-> pages, page |-> 1, name |-> NoName, pending |-> FALSE,
     at |-> IF pages = 0 THEN "returned" ELSE "open"]

\* a PDF of 0..MaxPages pages, or an image
Runs == {Run("pdf", n) : n \in 0..MaxPages} \cup {Run("image", 1)}

\* lines 229 and 261: temp_page_{i+1}.png, temp_image_{int(time.time())}.{ext}
TempName(run) ==
    IF run.kind = "pdf" THEN [kind |-> "temp_page", n |-> run.page, ext |-> "png"]
    ELSE [kind |-> "temp_image", n |-> now, ext |-> "png"]

TempFile(name, owner, page, complete) ==
    [name |-> name, owner |-> owner, page |-> page, complete |-> complete]

FileNamed(name) == {f \in files : f.name = name}

\* the files of another invocation that invocation p touches under the name
Disturbs(p, name, how) ==
    {[by |-> p, of |-> f.owner, how |-> how] : f \in {g \in FileNamed(name) : g.owner # p}}

NoFile == TempFile(NoName, 0, 0, FALSE)

InitPages ==
    /\ IdleReconcile
    /\ IdleText
    /\ IdleUpload
    /\ c_ocr \in BOOLEAN /\ tesseract_available \in BOOLEAN
    /\ ocrPc = "ready" /\ calls = << >>
    /\ runs \in [Invocations -> Runs]
    /\ files = {}
    /\ seen = [p \in Invocations |-> << >>]
    /\ disturbed = {}
    /\ now = 0

\* lines 230, 262: open(temp_filename, 'wb') creates the file or empties the
\* one that is there; when it fails there is no file of this invocation
OpenTemp(p) ==
    /\ runs[p].at = "open"
    /\ \E opened \in BOOLEAN :
          IF ~opened
          THEN /\ runs' = [runs EXCEPT ![p].at = "raised"]
               /\ UNCHANGED <<files, disturbed>>
          ELSE \E name \in {TempName(runs[p])} :
                  /\ files' = (files \ FileNamed(name))
                                 \cup {TempFile(name, p, runs[p].page, FALSE)}
                  /\ disturbed' = disturbed \cup Disturbs(p, name, "overwritten")
                  /\ runs' = [runs EXCEPT ![p].at = "write", ![p].name = name]
    /\ UNCHANGED <<seen, now, reconcileVars, ocrVars, uploadVars, textVars>>

\* lines 231, 263: temp_file.write(...), outside the try: a failure leaves
\* the function with the file in place
WriteTemp(p) ==
    /\ runs[p].at = "write"
    /\ \E written \in BOOLEAN :
          IF ~written
          THEN /\ runs' = [runs EXCEPT ![p].at = "raised"]
               /\ UNCHANGED <<files, disturbed>>
          ELSE /\ files' = {IF f.name = runs[p].name
                            THEN TempFile(f.name, p, runs[p].page, TRUE) ELSE f : f \in files}
               /\ disturbed' = disturbed \cup Disturbs(p, runs[p].name, "overwritten")
               /\ runs' = [runs EXCEPT ![p].at = "recognise"]
    /\ UNCHANGED <<seen, now, reconcileVars, ocrVars, uploadVars, textVars>>

\* lines 235-240, 266-269: extract_text reads the file under the name, and
\* its result is tested with x.strip()
Recognise(p) ==
    /\ runs[p].at = "recognise"
    /\ \E call \in {x \in CallsOf(c_ocr, tesseract_available) : x.file_path /\ ~x.image_data} :
       \E done \in {ExtractText(c_ocr, tesseract_available, call)} :
          runs' = [runs EXCEPT ![p].at = "cleanup",
                               ![p].pending = \/ done.exc # ""
                                              \/ /\ PyTruthy(done.result)
                                                 /\ PyStrip(done.result).exc # ""]
    /\ seen' = [seen EXCEPT ![p] =
                   Append(@, IF FileNamed(runs[p].name) = {} THEN NoFile
                             ELSE [Only(FileNamed(runs[p].name)) EXCEPT !.name = NoName])]
    /\ UNCHANGED <<files, disturbed, now, reconcileVars, ocrVars, uploadVars, textVars>>

\* lines 241-244, 270-273: the finally clause removes whatever file has the
\* name; then the exception goes on, or the next page follows
Cleanup(p) ==
    /\ runs[p].at = "cleanup"
    /\ files' = files \ FileNamed(runs[p].name)
    /\ disturbed' = disturbed \cup Disturbs(p, runs[p].name, "deleted")
    /\ runs' = IF runs[p].pending THEN [runs EXCEPT ![p].at = "raised"]
               ELSE IF runs[p].kind = "pdf" /\ runs[p].page < runs[p].pages
               THEN [runs EXCEPT ![p].at = "open", ![p].page = @ + 1]
               ELSE [runs EXCEPT ![p].at = "returned"]
    /\ UNCHANGED <<seen, now, reconcileVars, ocrVars, uploadVars, textVars>>

\* a second passes
Tick ==
    /\ now < MaxClock
    /\ now' = now + 1
    /\ UNCHANGED <<runs, files, seen, disturbed, reconcileVars, ocrVars, uploadVars, textVars>>

NextPages ==
    \/ \E p \in Invocations : OpenTemp(p) \/ WriteTemp(p) \/ Recognise(p) \/ Cleanup(p)
    \/ Tick

SpecPages == InitPages /\ [][NextPages]_vars

\* ------------------------------------------------------------------------
\* Properties of the temporary images (checked under SpecPages)
\* ------------------------------------------------------------------------
OwnFiles(p) == {f \in files : f.owner = p}

\* C16: an invocation of extract_text_with_custom_ocr has at most one
\* temporary image at any time, none when it turns to the next page, and
\* none once it has returned or raised, whether a text was found or not,
\* the engine failed, or the image could not be written.
C16_NoTemporaryImageLeft ==
    \A p \in Invocations :
        /\ Cardinality(OwnFiles(p)) <= 1
        /\ runs[p].at \in {"open", "returned", "raised"} => OwnFiles(p) = {}

\* C18: invocations running side by side do not interfere through their
\* temporary images: no invocation overwrites or deletes the image of
\* another, and extract_text always reads the complete image that its own
\* invocation wrote for the page.
C18_NoInterference ==
    /\ disturbed = {}
    /\ \A p \in Invocations :
          \A i \in 1..Len(seen[p]) : seen[p][i] = TempFile(NoName, p, i, TRUE)

\* ------------------------------------------------------------------------
\* Properties of persistence (checked under SpecUpload)
\* ------------------------------------------------------------------------
\* save_to_db was called on the reconciled record
SaveRan == pc = "returned" /\ upPc \in {"saved", "responded", "aborted"}

\* ... and the record did not reach the database: the connection was
\* refused, or the insertion of the invoice row or of an item row failed
PersistenceFailed == SaveRan /\ persisted # "database"

\* C17: a failure of persistence does not end the upload: the upload goes on
\* to answer with the reconciled record, and the failure is not reported as
\* a failure to parse the invoice.
C17_PersistenceFailureDoesNotAbort ==
    PersistenceFailed =>
        /\ upPc # "aborted"
        /\ ReportedAs # "failed to parse invoice"
        /\ upPc = "responded" => response.status = 200 /\ data.isDict

\* ------------------------------------------------------------------------
\* Properties of the construction (checked under SpecOcr)
\* ------------------------------------------------------------------------
\* the tier was tried in the call
Tried(c, tier) == \E j \in 1..Len(c.done.tiers) : c.done.tiers[j] = tier

\* every call leaves out the tiers that are not available
UnavailableTiersSkipped ==
    \A i \in 1..Len(calls) :
        /\ ~c_ocr => ~Tried(calls[i], "primary")
        /\ ~tesseract_available => ~Tried(calls[i], "secondary")

\* C20: CustomOCR() never raises, whether the C library loads or not and
\* whether the tesseract executable is found and runs or not, and the calls
\* of extract_text on the object skip the tiers that are not available.
C20_ConstructorNeverRaises ==
    /\ ocrPc # "failed"
    /\ UnavailableTiersSkipped

\* ------------------------------------------------------------------------
\* Properties of the decoding cascade (checked under SpecUpload)
\* ------------------------------------------------------------------------
\* the service answered and its reply is not blank: the cascade has run
CascadeRan ==
    /\ upPc \notin {"received", "extracting", "parsing"}
    /\ Len(llama) = 1 /\ llama[1].kind = "ok"
    /\ Strip(AssistantReply(llama[1].text)) # << >>

\* the payload of the reply: the fenced block if there is one
ReplyPayload ==
    IF FencedBlock(AssistantReply(llama[1].text)).found
    THEN FencedBlock(AssistantReply(llama[1].text)).text
    ELSE Strip(AssistantReply(llama[1].text))

\* what each stage gives for the payload
StageResult(stage) ==
    IF stage = "strict" THEN JsonLoads(ReplyPayload)
    ELSE IF stage = "cleaned" THEN JsonLoads(CleanedJson(ReplyPayload))
    ELSE DemjsonDecode(CleanedJson(ReplyPayload))

CascadeOrder == <<"strict", "cleaned", "lenient">>

MalformedRaised == upPc = "aborted" /\ StartsWith(cause, P_FAILED_JSON)

\* the stages were tried in the fixed order, each after the failure of all
\* the stages before it, and the first success is the draft
CascadeInOrder ==
    /\ attempts # << >>
    /\ Len(attempts) <= 3
    /\ attempts = SubSeq(CascadeOrder, 1, Len(attempts))
    /\ \A i \in 1..(Len(attempts) - 1) : ~StageResult(attempts[i]).ok
    /\ ~MalformedRaised =>
          /\ StageResult(attempts[Len(attempts)]).ok
          /\ draft = StageResult(attempts[Len(attempts)]).draft
    /\ MalformedRaised => ~StageResult(attempts[Len(attempts)]).ok

\* C22 as stated: the cascade runs in order, and the malformed-reply error
\* is raised only after the strict decoder, the decoder of the cleaned
\* payload and the lenient decoder have all been attempted.
C22_AllThreeBeforeError ==
    CascadeRan =>
        /\ CascadeInOrder
        /\ MalformedRaised => attempts = CascadeOrder

\* C22: the cascade runs in order, and the malformed-reply error is raised
\* only after every decoder that is available has been attempted: the three
\* of them when demjson3 could be imported, the strict decoder and the
\* decoder of the cleaned payload when it could not.
C22_EveryAvailableDecoderBeforeError ==
    CascadeRan =>
        /\ CascadeInOrder
        /\ MalformedRaised =>
              attempts = IF lenient THEN CascadeOrder ELSE SubSeq(CascadeOrder, 1, 2)

\* without demjson3, a reply neither decoder accepts ended the upload after
\* two attempts
C22_Witness ==
    /\ CascadeRan /\ MalformedRaised
    /\ ~lenient
    /\ attempts = <<"strict", "cleaned">>

\* ------------------------------------------------------------------------
\* The header total (checked under SpecReconcile)
\* ------------------------------------------------------------------------
\* the words of a number among those of the written-amount test; the other
\* two, EUR and CTS, are a currency and a unit
NumberWords == WrittenWords \ {T_EUR, <<"C", "T", "S">>}

WrittenInWords(s) == \E w \in NumberWords : Contains(Upper(s), w)

\* the draft's header total is a text
TextualTotal == draft.isDict /\ draft.M_fe_valDev.k = "str"

\* the text of the total as line 648 prepares it
TotalText == Replace(Replace(draft.M_fe_valDev.s, <<",">>, <<".">>), <<" ">>, << >>)

\* C23: a header total that is a text with digits and no number word ends
\* as the number of its first numeric run, whether or not the text also
\* holds a currency or unit token (on drafts none of whose header numbers
\* fails its coercion).
C23_TextualTotalKeepsItsNumber ==
    (/\ Returned /\ ~headerFailed
     /\ TextualTotal
     /\ HasDigit(draft.M_fe_valDev.s)
     /\ ~WrittenInWords(draft.M_fe_valDev.s))
    => data.M_fe_valDev = FloatOfFirstRun(TotalText).v

\* the record after the caller's fallback
Final == pc = "final"

\* the numeric coercion of the draft's total gives zero: a null or absent
\* value, a numeric zero, a text that yields zero, or the reset of the
\* header numbers after a coercion failed
ZeroAfterCoercion ==
    \/ headerFailed
    \/ CoerceTotal(NoneToZero(draft.M_fe_valDev), NoMetadata) = Ok(Num(0))

\* a candidate lies in the plausible range
PlausibleCandidate == HasTotals(metadata) /\ BestTotal(metadata.potential_totals) > 0

\* C24: when the numeric coercion of the header total gives zero and a
\* metadata candidate lies in the plausible range, the total of the final
\* record is the best such candidate.
C24_ZeroTotalTakesBestCandidate ==
    (Final /\ ZeroAfterCoercion /\ PlausibleCandidate)
    => data.M_fe_valDev = Num(BestTotal(metadata.potential_totals))

\* a text without digits left the total at zero and the caller's fallback
\* replaced it; and the reset after a failed weight did the same
C24_Witness ==
    /\ Final /\ PlausibleCandidate
    /\ \/ draft.M_fe_valDev = Str(X_NO_DIGITS) /\ ~headerFailed
       \/ headerFailed /\ draft.M_fe_valDev = Amount(300)
    /\ data.M_fe_valDev = Num(BestTotal(metadata.potential_totals))

\* the values of the candidates that parse as a number of the plausible range
PlausibleValues(totals) ==
    { FloatOfText(Replace(totals[i], <<",">>, <<".">>)).n :
        i \in { j \in 1..Len(totals) :
                  LET f == FloatOfText(Replace(totals[j], <<",">>, <<".">>))
                  IN  f.ok /\ MinPlausible * Scale <= f.n /\ f.n <= MaxPlausible * Scale } }

\* the greatest of them, 0 when there is none
GreatestPlausible(md) ==
    IF md.k # "dict" \/ PlausibleValues(md.potential_totals) = {} THEN 0
    ELSE CHOOSE x \in PlausibleValues(md.potential_totals) :
            \A y \in PlausibleValues(md.potential_totals) : y <= x

\* the draft's total is an amount written out in number words
WrittenOutTotal == TextualTotal /\ WrittenInWords(draft.M_fe_valDev.s)

CodedItems ==
    { i \in 1..Len(draft.items.v) :
        /\ draft.items.v[i].isDict
        /\ draft.items.v[i].M_fl_Ngp.k = "str"
        /\ EightDigits(draft.items.v[i].M_fl_Ngp.s) }

\* the positions of the items whose description was sent to the service
Requested == { ngpRequest.needing[j] : j \in 1..Len(ngpRequest.needing) }

\* C27: an item of the draft that carries a code of eight digits is not in
\* the request sent to the reasoning service and has exactly that code in
\* the returned record, whatever the service replied.
C27_CodedItemUntouched ==
    (Returned /\ draft.isDict /\ draft.items.k = "list")
    => \A i \in CodedItems :
          /\ i \notin Requested
          /\ FinalItems[i].M_fl_Ngp = draft.items.v[i].M_fl_Ngp

\* a coded item next to one that needed a code: the service was asked for
\* the second item only and answered with a code, the first kept its own
C27_Witness ==
    /\ Returned /\ draft.isDict /\ draft.items.k = "list"
    /\ Len(draft.items.v) = 2
    /\ CodedItems = {1}
    /\ ngpRequest.called /\ Requested = {2}
    /\ ngpReply.kind = "json"
    /\ ngpReply.entries = <<ReplyEntry(Str(X_NGP_SHORT)), ReplyEntry(Str(X_NGP_VALID))>>
    /\ FinalItems[1].M_fl_Ngp = Str(X_NGP_VALID)
    /\ FinalItems[2].M_fl_Ngp = Str(T_DEFAULT_NGP)


\* the classifications find_ngp_codes_with_ai returned
Returned_Classifications == ngpRequest.classifications

\* the code of an item the assignment loop did not write: the draft's own,
\* after the defaults and the final pass
UnassignedCode(i) == FinalNgp(ItemDefaults(draft.items.v[i])).M_fl_Ngp

\* C30: the k-th classification returned is stored on the k-th item that
\* needed a code, classifications beyond the items that needed one are
\* ignored, an item beyond the classifications returned has the default
\* code, and an item that needed no code is not written by the assignment.
C30_AssignedByPosition ==
    (Returned /\ ngpRequest.called)
    => /\ \A k \in 1..Len(ngpRequest.needing) :
             FinalItems[ngpRequest.needing[k]].M_fl_Ngp =
                IF k <= Len(Returned_Classifications)
                THEN Returned_Classifications[k].ngp_code
                ELSE Str(T_DEFAULT_NGP)
       /\ \A i \in 1..Len(FinalItems) :
             i \notin Requested => FinalItems[i].M_fl_Ngp = UnassignedCode(i)

\* ------------------------------------------------------------------------
\* The text functions: clean_text over a recognised text, then
\* extract_invoice_metadata over it, then the hints of the request
\* ------------------------------------------------------------------------
\* the number of passes of clean_text over one text
MaxPasses == 2

\* recognised texts: amounts side by side, misread labels, numbers, dates,
\* weights, currencies, and digits at the end and at the start of lines
Texts ==
    { Chars("12,50 13,50"), Chars("TQTALI 262.50"), Chars("FACTURE N° 832"),
      Chars("TOTAL : 262.50"), Chars("Montant TTC 180.894,20"),
      Chars("8,025 KGS 6,825 KGS 1 KG"), Chars("LE 11-04-2025"), Chars("DEVISE : EUR"),
      Chars("120.00 EUR 30.00 DH 262,50"), Chars(""), Chars("Qt� 2 Pièce 12,00"),
      Chars("FA009421 01/02/2025"), Chars("1 2\n3"), Chars("A 1\n2 B"),
      Chars("TOTAL 120,00\nTOTAL 262,50\n300,00"),
      Chars("TOTAL 262,50 8 KGS 6 KGS 1 KG") }

InitText ==
    /\ IdleReconcile
    /\ IdleOcr
    /\ IdleUpload
    /\ IdlePages
    /\ ocr_text \in Texts
    /\ before_pass = ocr_text
    /\ passes = 0
    /\ found = NotExtracted
    /\ hints = << >>
    /\ textPc = "text"

\* line 276: cleaned_text = clean_text(text)
Clean ==
    /\ textPc = "text"
    /\ passes < MaxPasses
    /\ before_pass' = ocr_text
    /\ ocr_text' = clean_text(ocr_text)
    /\ passes' = passes + 1
    /\ UNCHANGED <<found, hints, textPc, reconcileVars, ocrVars, uploadVars, pageVars>>

\* line 2177: metadata = extract_invoice_metadata(extracted_text)
Extract ==
    /\ textPc = "text"
    /\ found' = extract_invoice_metadata(ocr_text)
    /\ textPc' = "mined"
    /\ UNCHANGED <<ocr_text, before_pass, passes, hints,
                   reconcileVars, ocrVars, uploadVars, pageVars>>

\* lines 940-957: the hints of parse_invoice_with_llama
BuildHints ==
    /\ textPc = "mined"
    /\ hints' = Hints(found)
    /\ textPc' = "prompted"
    /\ UNCHANGED <<ocr_text, before_pass, passes, found,
                   reconcileVars, ocrVars, uploadVars, pageVars>>

NextText == Clean \/ Extract \/ BuildHints

SpecText == InitText /\ [][NextText]_vars

\* ------------------------------------------------------------------------
\* C21: a second pass of clean_text
\* ------------------------------------------------------------------------
\* the text has been through clean_text twice or more: the latest pass ran
\* over the output of an earlier one
CleanedAgain == passes >= 2

\* C21: clean_text is idempotent: a pass of clean_text over its own output
\* returns that output, with no line break added and no character changed.
C21_SecondPassChangesNothing ==
    CleanedAgain => ocr_text = before_pass

\* ------------------------------------------------------------------------
\* C29: amounts side by side, and the joining of digits
\* ------------------------------------------------------------------------
\* two amounts with white space and nothing else between them
AmountPairs == { Chars("12,50 13,50") }

\* the number of lines of a text
LineCount(s) == Len(SplitLines(s))

\* the text of the latest pass as line 173 finds it and as it leaves it
BeforeJoin == Separated(before_pass)

AfterJoin == Sub(JoinDigits.re, JoinDigits.repl, BeforeJoin)

\* C29: after one pass of clean_text two amounts that only white space
\* separated stand on two lines, and the joining of digits across white
\* space (line 173) leaves every line break of the text in place: it never
\* makes one line of two.
C29_AmountsApartAndLinesKept ==
    (passes = 1)
    => /\ before_pass \in AmountPairs => LineCount(ocr_text) = 2
       /\ LineCount(AfterJoin) = LineCount(BeforeJoin)

\* ------------------------------------------------------------------------
\* C28: the candidate lists of extract_invoice_metadata
\* ------------------------------------------------------------------------
\* extract_invoice_metadata has returned
Extracted == textPc \in {"mined", "prompted"}

\* the number of candidates that stand before the matches of pattern k
RECURSIVE BlockStart(_, _)
BlockStart(blocks, k) ==
    IF k <= 1 THEN 0 ELSE BlockStart(blocks, k - 1) + Len(blocks[k - 1])

\* the list is the matches of the first pattern in the order of the text,
\* then those of the second, and so on to the last, and nothing else
MatchesInOrder(list, patterns, s) ==
    \A blocks \in {[k \in 1..Len(patterns) |-> FindAll(patterns[k], s)]} :
        /\ Len(list) = BlockStart(blocks, Len(patterns) + 1)
        /\ \A k \in 1..Len(patterns) :
              SubSeq(list, BlockStart(blocks, k) + 1, BlockStart(blocks, k) + Len(blocks[k]))
                 = blocks[k]

\* the text in hand is the text that was in hand before the extraction
TextKept ==
    ocr_text = IF passes = 0 THEN before_pass ELSE clean_text(before_pass)

\* C28: each candidate list of extract_invoice_metadata is the matches of
\* the field's patterns, pattern after pattern in the order of the list of
\* patterns and match after match in the order of the text, a value that
\* several patterns match standing once for each; no match is left out or
\* moved, and the text is as it was.
C28_CandidatesAreEveryMatchInPatternOrder ==
    Extracted
    => /\ MatchesInOrder(found.potential_invoice_numbers, invoice_patterns, ocr_text)
       /\ MatchesInOrder(found.potential_dates, date_patterns, ocr_text)
       /\ MatchesInOrder(found.potential_weights, weight_patterns, ocr_text)
       /\ MatchesInOrder(found.potential_totals, total_patterns, ocr_text)
       /\ MatchesInOrder(found.potential_currencies, currency_patterns, ocr_text)
       /\ TextKept

\* "FACTURE N° 832": three patterns find 832, two others find N and URE
C28_Witness ==
    /\ textPc = "mined"
    /\ ocr_text = Chars("FACTURE N° 832")
    /\ found.potential_invoice_numbers =
          <<Chars("832"), Chars("832"), Chars("N"), Chars("URE"), Chars("832")>>

\* ------------------------------------------------------------------------
\* C26: the hints of the extraction request
\* ------------------------------------------------------------------------
\* the hints have been built
Prompted == textPc = "prompted"

\* the line of a field that shows its first candidate and no other
FirstOnly(label, values) ==
    IF values = << >> THEN << >> ELSE Chars(label) \o values[1]

\* the line of a field that shows its first two candidates and no other
FirstTwo(label, values) ==
    IF Len(values) <= 1 THEN FirstOnly(label, values)
    ELSE Chars(label) \o values[1] \o Chars(", ") \o values[2]

\* C26 as stated: the hints show, for the invoice number, the date, the
\* weight, the total and the currency, the first candidate and no later one.
C26_FirstCandidateOfEachField ==
    Prompted
    => hints = FirstOnly("\nInvoice number found: ", found.potential_invoice_numbers)
               \o FirstOnly("\nDate found: ", found.potential_dates)
               \o FirstOnly("\nWeights found: ", found.potential_weights)
               \o FirstOnly("\nTotals found: ", found.potential_totals)
               \o FirstOnly("\nCurrency found: ", found.potential_currencies)

\* C26 amended: the hints show the first candidate of the invoice number,
\* of the date and of the currency, and the first two candidates of the
\* weights and of the totals; no later candidate of any field is shown.
C26_FirstOrFirstTwoCandidates ==
    Prompted
    => hints = FirstOnly("\nInvoice number found: ", found.potential_invoice_numbers)
               \o FirstOnly("\nDate found: ", found.potential_dates)
               \o FirstTwo("\nWeights found: ", found.potential_weights)
               \o FirstTwo("\nTotals found: ", found.potential_totals)
               \o FirstOnly("\nCurrency found: ", found.potential_currencies)

\* a text with three weights and three totals: the third of each is not shown
C26_Witness ==
    /\ Prompted
    /\ Len(found.potential_weights) >= 3
    /\ Len(found.potential_totals) >= 3
    /\ hints = Chars("\nInvoice number found: 262\nWeights found: 8, 6\nTotals found: 262,50, 262,50")

====
